---- MODULE Spec2Model ----
(***************************************************************************)
(* Model of the UBC prerequisite parser: the schema validator of           *)
(* utilities.ts (validateParsedRequirements and the per-variant checks),   *)
(* and the graph generator (extractCourseRequirementsWithValues,           *)
(* calculatePrerequisiteDepth, generateNodesAndLinks).                     *)
(*                                                                         *)
(* Untyped JavaScript values are tagged records, so that a candidate can   *)
(* be any JSON value and not only a well-typed Requirements tree.          *)
(***************************************************************************)
EXTENDS Integers, Sequences, FiniteSets, TLC

VARIABLES data, result, pc, node, courseDepths, extracted, depth,
          courses, changed, maxIterations, cursor, nodes, links,
          files, llmResult, runs

\* the state of one run of generateNodesAndLinks, besides courseDepths
graphVars == <<courses, changed, maxIterations, cursor, nodes, links>>

\* the state of the parse runs: the course files on disk, the answer of the
\* generation service for the file at hand, the number of runs started
parseVars == <<files, llmResult, runs>>

vars == <<data, result, pc, node, courseDepths, extracted, depth,
          courses, changed, maxIterations, cursor, nodes, links,
          files, llmResult, runs>>

(***************************************************************************)
(* JavaScript values.                                                      *)
(***************************************************************************)
Undef == [k |-> "undefined"]

Null == [k |-> "null"]

Bool(b) == [k |-> "boolean", b |-> b]

Num(n) == [k |-> "number", n |-> n]

Str(s) == [k |-> "string", s |-> s]

Arr(a) == [k |-> "array", a |-> a]

Obj(f) == [k |-> "object", f |-> f]

\* typeof v
TypeOf(v) ==
    CASE v.k = "undefined" -> "undefined"
      [] v.k = "boolean" -> "boolean"
      [] v.k = "number" -> "number"
      [] v.k = "string" -> "string"
      [] OTHER -> "object"

\* !!v : undefined, null, false, 0 and "" are falsy
Truthy(v) ==
    CASE v.k = "undefined" -> FALSE
      [] v.k = "null" -> FALSE
      [] v.k = "boolean" -> v.b
      [] v.k = "number" -> v.n # 0
      [] v.k = "string" -> v.s # ""
      [] OTHER -> TRUE

\* v.name : a property that is not there reads as undefined
Get(v, name) ==
    IF v.k = "object" /\ name \in DOMAIN v.f THEN v.f[name] ELSE Undef

\* Array.isArray(v)
IsArray(v) == v.k = "array"

\* list.includes(v) for a list of string literals
Includes(list, v) == v.k = "string" /\ v.s \in list

(***************************************************************************)
(* Validation results: { isValid: true } and { isValid: false, error }.    *)
(***************************************************************************)
Ok == [isValid |-> TRUE]

Err(e) == [isValid |-> FALSE, error |-> e]

NoResult == [isValid |-> FALSE, error |-> "", pending |-> TRUE]

\* the range check with both bounds excluded
BadMinGrade_Exclusive(req) ==
    /\ Get(req, "minGrade") # Undef
    /\ \/ TypeOf(Get(req, "minGrade")) # "number"
       \/ Get(req, "minGrade").n <= 0
       \/ Get(req, "minGrade").n >= 100

\* the minGrade check shared by course, credit_count and course_count
BadMinGrade(req) ==
    /\ Get(req, "minGrade") # Undef
    /\ \/ TypeOf(Get(req, "minGrade")) # "number"
       \/ Get(req, "minGrade").n < 0
       \/ Get(req, "minGrade").n > 100

validateRequirementCourse(req) ==
    IF ~Truthy(Get(req, "course")) \/ TypeOf(Get(req, "course")) # "string"
    THEN Err("Course requirement must have a course field")
    ELSE IF BadMinGrade(req)
    THEN Err("minGrade must be a number between 0 and 100")
    ELSE IF Get(req, "canBeTakenConcurrently") # Undef
            /\ TypeOf(Get(req, "canBeTakenConcurrently")) # "boolean"
    THEN Err("canBeTakenConcurrently must be a boolean")
    ELSE IF Get(req, "mustBeTakenConcurrently") # Undef
            /\ TypeOf(Get(req, "mustBeTakenConcurrently")) # "boolean"
    THEN Err("mustBeTakenConcurrently must be a boolean")
    ELSE Ok

validLevels == {"100", "200", "300", "400"}

IsString(d) == TypeOf(d) = "string"

IsValidLevel(level) == TypeOf(level) = "string" /\ Includes(validLevels, level)

\* req.department.every(d => typeof d === 'string') : true on the empty array
EveryString(arr) == \A i \in 1..Len(arr.a) : IsString(arr.a[i])

\* req.level.every(level => typeof level === 'string' && validLevels.includes(level))
EveryValidLevel(arr) == \A i \in 1..Len(arr.a) : IsValidLevel(arr.a[i])

\* the optional department / level / minGrade checks, identical in
\* validateRequirementCreditCount and validateRequirementCourseCount
validateOptionalFields(req) ==
    LET department == Get(req, "department")
        level == Get(req, "level")
    IN  IF department # Undef /\ TypeOf(department) # "string"
           /\ IsArray(department) /\ ~EveryString(department)
        THEN Err("department array must contain only strings")
        ELSE IF department # Undef /\ TypeOf(department) # "string"
                /\ ~IsArray(department)
        THEN Err("department must be a string or array of strings")
        ELSE IF level # Undef /\ TypeOf(level) = "string"
                /\ ~Includes(validLevels, level)
        THEN Err("level must be one of: 100, 200, 300, 400")
        ELSE IF level # Undef /\ TypeOf(level) # "string"
                /\ IsArray(level) /\ ~EveryValidLevel(level)
        THEN Err("level array must contain only valid levels: 100, 200, 300, 400")
        ELSE IF level # Undef /\ TypeOf(level) # "string" /\ ~IsArray(level)
        THEN Err("level must be a string or array of strings")
        ELSE IF BadMinGrade(req)
        THEN Err("minGrade must be a number between 0 and 100")
        ELSE Ok

validateRequirementCreditCount(req) ==
    IF \/ ~Truthy(Get(req, "credits"))
       \/ TypeOf(Get(req, "credits")) # "number"
       \/ Get(req, "credits").n <= 0
    THEN Err("Credit count requirement must have a positive credits field")
    ELSE validateOptionalFields(req)

validateRequirementCourseCount(req) ==
    IF \/ ~Truthy(Get(req, "count"))
       \/ TypeOf(Get(req, "count")) # "number"
       \/ Get(req, "count").n <= 0
    THEN Err("Course count requirement must have a positive count field")
    ELSE validateOptionalFields(req)

validStandings == {"1st", "2nd", "3rd", "4th", "graduate"}

validateRequirementStanding(req) ==
    IF ~Truthy(Get(req, "standing")) \/ ~Includes(validStandings, Get(req, "standing"))
    THEN Err("Standing requirement must have a valid standing field")
    ELSE Ok

validateRequirementProgram(req) ==
    IF ~Truthy(Get(req, "program")) \/ TypeOf(Get(req, "program")) # "string"
    THEN Err("Program requirement must have a program field")
    ELSE Ok

validateRequirementPermission(req) ==
    IF ~Truthy(Get(req, "note")) \/ TypeOf(Get(req, "note")) # "string"
    THEN Err("Permission requirement must have a note field")
    ELSE Ok

validateRequirementOther(req) ==
    IF ~Truthy(Get(req, "note")) \/ TypeOf(Get(req, "note")) # "string"
    THEN Err("Other requirement must have a note field")
    ELSE Ok

groupLogics == {"ALL_OF", "ONE_OF", "TWO_OF"}

RECURSIVE validateRequirements(_)
RECURSIVE validateChildren(_, _)
RECURSIVE validateRequirementGroup(_)

\* the loop with the bound i < req.children.length - 1
validateChildren_SkipsLast(children, i) ==
    IF i >= Len(children.a) - 1
    THEN Ok
    ELSE LET childValidation == validateRequirements(children.a[i + 1])
         IN  IF ~childValidation.isValid
             THEN Err("Invalid child at index " \o ToString(i) \o ": "
                      \o childValidation.error)
             ELSE validateChildren(children, i + 1)

\* for (let i = 0; i < req.children.length; i++) : i is the 0-based index
validateChildren(children, i) ==
    IF i >= Len(children.a)
    THEN Ok
    ELSE LET childValidation == validateRequirements(children.a[i + 1])
         IN  IF ~childValidation.isValid
             THEN Err("Invalid child at index " \o ToString(i) \o ": "
                      \o childValidation.error)
             ELSE validateChildren(children, i + 1)

\* the group check without the test for an empty children array
validateRequirementGroup_NoEmptyCheck(req) ==
    IF ~Truthy(Get(req, "logic")) \/ ~Includes(groupLogics, Get(req, "logic"))
    THEN Err("Group must have logic field with value ALL_OF, ONE_OF, or TWO_OF")
    ELSE IF ~IsArray(Get(req, "children"))
    THEN Err("Group must have children array")
    ELSE validateChildren(Get(req, "children"), 0)

validateRequirementGroup(req) ==
    IF ~Truthy(Get(req, "logic")) \/ ~Includes(groupLogics, Get(req, "logic"))
    THEN Err("Group must have logic field with value ALL_OF, ONE_OF, or TWO_OF")
    ELSE IF ~IsArray(Get(req, "children"))
    THEN Err("Group must have children array")
    ELSE IF Len(Get(req, "children").a) = 0
    THEN Err("Group must have at least one child")
    ELSE validateChildren(Get(req, "children"), 0)

validateRequirements(req) ==
    IF ~Truthy(req) \/ TypeOf(req) # "object"
    THEN Err("Requirement must be an object")
    ELSE IF ~Truthy(Get(req, "type")) \/ TypeOf(Get(req, "type")) # "string"
    THEN Err("Requirement must have a valid type field")
    ELSE LET type == Get(req, "type").s
         IN  CASE type = "group" -> validateRequirementGroup(req)
               [] type = "course" -> validateRequirementCourse(req)
               [] type = "credit_count" -> validateRequirementCreditCount(req)
               [] type = "course_count" -> validateRequirementCourseCount(req)
               [] type = "standing" -> validateRequirementStanding(req)
               [] type = "program" -> validateRequirementProgram(req)
               [] type = "permission" -> validateRequirementPermission(req)
               [] type = "other" -> validateRequirementOther(req)
               [] OTHER -> Err("Unknown requirement type: " \o type)

\* the optional fields with the corequisites visited first
optionalFields_CorequisitesFirst ==
    << [name |-> "corequisites", label |-> "Invalid corequisites: "],
       [name |-> "prerequisites", label |-> "Invalid prerequisites: "],
       [name |-> "recommendedPrerequisites",
        label |-> "Invalid recommended prerequisites: "],
       [name |-> "recommendedCorequisites",
        label |-> "Invalid recommended corequisites: "] >>

\* the optional top-level fields in the order the validator visits them,
\* each with the label its error is prefixed with
optionalFields ==
    << [name |-> "prerequisites", label |-> "Invalid prerequisites: "],
       [name |-> "corequisites", label |-> "Invalid corequisites: "],
       [name |-> "recommendedPrerequisites",
        label |-> "Invalid recommended prerequisites: "],
       [name |-> "recommendedCorequisites",
        label |-> "Invalid recommended corequisites: "] >>

RECURSIVE validateOptional(_, _)
\* the four "if (data.x) { validate; if invalid return }" blocks, in order
validateOptional(d, j) ==
    IF j > Len(optionalFields)
    THEN Ok
    ELSE LET field == Get(d, optionalFields[j].name)
         IN  IF Truthy(field) /\ ~validateRequirements(field).isValid
             THEN Err(optionalFields[j].label \o validateRequirements(field).error)
             ELSE validateOptional(d, j + 1)

\* the validator returning a bare { isValid: false } for a bad code field
validateParsedRequirements_NoReason(d) ==
    IF ~Truthy(d) \/ TypeOf(d) # "object"
    THEN Err("Data must be an object")
    ELSE IF ~Truthy(Get(d, "department")) \/ TypeOf(Get(d, "department")) # "string"
    THEN Err("Missing or invalid department field")
    ELSE IF ~Truthy(Get(d, "code")) \/ TypeOf(Get(d, "code")) # "string"
    THEN [isValid |-> FALSE]
    ELSE validateOptional(d, 1)

\* The body runs inside try/catch.  On JSON values no statement of the
\* validator throws (every property is read from a value already known to
\* be a truthy object, every .length and .every from a known array), so
\* the catch branch has no behaviour to contribute.
validateParsedRequirements(d) ==
    IF ~Truthy(d) \/ TypeOf(d) # "object"
    THEN Err("Data must be an object")
    ELSE IF ~Truthy(Get(d, "department")) \/ TypeOf(Get(d, "department")) # "string"
    THEN Err("Missing or invalid department field")
    ELSE IF ~Truthy(Get(d, "code")) \/ TypeOf(Get(d, "code")) # "string"
    THEN Err("Missing or invalid code field")
    ELSE validateOptional(d, 1)

(***************************************************************************)
(* Link values.  The generator computes them in floating point as          *)
(* quotients of small integers; they are kept here as reduced fractions.   *)
(***************************************************************************)
RECURSIVE GCD(_, _)
GCD(a, b) == IF b = 0 THEN a ELSE GCD(b, a % b)

Frac(n, d) == [num |-> n \div GCD(n, d), den |-> d \div GCD(n, d)]

\* value / n
FracDiv(value, n) == Frac(value.num, value.den * n)

\* the doubling left out
FracMul_Dropped(value, n) == value

\* value * n
FracMul(value, n) == Frac(value.num * n, value.den)

\* function extractCourseRequirementsWithValues(node, baseValue = 1)
defaultBaseValue == Frac(1, 1)

RECURSIVE extractCourseRequirementsWithValues(_, _)
RECURSIVE extractChildren(_, _, _)

\* the children's entries put in front of the list instead of appended
extractChildren_Prepends(children, i, childValue) ==
    IF i > Len(children)
    THEN <<>>
    ELSE extractChildren(children, i + 1, childValue)
         \o extractCourseRequirementsWithValues(children[i], childValue)

\* for (const child of node.children) courses.push(...extract(child, childValue))
extractChildren(children, i, childValue) ==
    IF i > Len(children)
    THEN <<>>
    ELSE extractCourseRequirementsWithValues(children[i], childValue)
         \o extractChildren(children, i + 1, childValue)

extractCourseRequirementsWithValues(n, baseValue) ==
    LET type == Get(n, "type").s
    IN  CASE type = "course" ->
                <<[course |-> Get(n, "course").s, value |-> baseValue]>>
          [] type = "group" ->
                LET children == Get(n, "children").a
                    logic == Get(n, "logic").s
                    childValue ==
                        IF logic = "ONE_OF"
                        THEN FracDiv(baseValue, Len(children))
                        ELSE IF logic = "TWO_OF"
                        THEN FracDiv(FracMul(baseValue, 2), Len(children))
                        ELSE baseValue
                IN  extractChildren(children, 1, childValue)
          [] OTHER -> <<>>

(***************************************************************************)
(* Prerequisite depth of a requirement against the depth table.            *)
(***************************************************************************)
\* courseDepths.get(id) || 0
DepthOf(table, id) == IF id \in DOMAIN table THEN table[id] ELSE 0

\* Math.min(...ds) and Math.max(...ds) of a non-empty array
MinOf(ds) == CHOOSE m \in {ds[i] : i \in 1..Len(ds)} : \A i \in 1..Len(ds) : m <= ds[i]

MaxOf(ds) == CHOOSE m \in {ds[i] : i \in 1..Len(ds)} : \A i \in 1..Len(ds) : m >= ds[i]

\* ds.sort((a, b) => a - b)
SortAscending(ds) == SortSeq(ds, LAMBDA a, b : a < b)

\* the zero depths kept
FilterPositive_KeepsZeros(ds) == ds

\* ds.filter(depth => depth > 0)
FilterPositive(ds) == SelectSeq(ds, LAMBDA d : d > 0)

RECURSIVE calculatePrerequisiteDepth(_, _)
\* a course leaf counted as 1 without the table lookup
calculatePrerequisiteDepth_NoLookup(n, table) ==
    LET type == Get(n, "type").s
    IN  CASE type = "course" -> 1
          [] type = "group" ->
                LET children == Get(n, "children").a
                    logic == Get(n, "logic").s
                    childDepths ==
                        FilterPositive(
                            [i \in 1..Len(children) |->
                                calculatePrerequisiteDepth(children[i], table)])
                IN  IF Len(children) = 0 THEN 0
                    ELSE IF Len(childDepths) = 0 THEN 0
                    ELSE IF logic = "ONE_OF" THEN MinOf(childDepths)
                    ELSE IF logic = "TWO_OF"
                    THEN IF Len(childDepths) >= 2
                         THEN SortAscending(childDepths)[2]
                         ELSE SortAscending(childDepths)[1]
                    ELSE MaxOf(childDepths)
          [] OTHER -> 0

calculatePrerequisiteDepth(n, table) ==
    LET type == Get(n, "type").s
    IN  CASE type = "course" -> DepthOf(table, Get(n, "course").s) + 1
          [] type = "group" ->
                LET children == Get(n, "children").a
                    logic == Get(n, "logic").s
                    childDepths ==
                        FilterPositive(
                            [i \in 1..Len(children) |->
                                calculatePrerequisiteDepth(children[i], table)])
                IN  IF Len(children) = 0 THEN 0
                    ELSE IF Len(childDepths) = 0 THEN 0
                    ELSE IF logic = "ONE_OF" THEN MinOf(childDepths)
                    ELSE IF logic = "TWO_OF"
                    THEN IF Len(childDepths) >= 2
                         THEN SortAscending(childDepths)[2]
                         ELSE SortAscending(childDepths)[1]
                    ELSE MaxOf(childDepths)
          [] OTHER -> 0

(***************************************************************************)
(* Candidates handed to the validator.  The text-generation service can    *)
(* answer with any JSON value, so the candidates are not restricted to     *)
(* well-typed Requirements trees.                                          *)
(***************************************************************************)
\* largest number of nodes of a nested candidate tree
MaxReqNodes == 4

Group(logic, children) ==
    Obj([type |-> Str("group"), logic |-> logic, children |-> Arr(children)])

Course(id) == Obj([type |-> Str("course"), course |-> Str(id)])

Standing(s) == Obj([type |-> Str("standing"), standing |-> Str(s)])

CourseWithGrade(id, g) ==
    Obj([type |-> Str("course"), course |-> Str(id), minGrade |-> g])

minGradePool ==
    {Undef, Null, Bool(TRUE), Str("80"),
     Num(-1), Num(0), Num(50), Num(100), Num(101)}

departmentPool ==
    {Undef, Null, Num(5), Str(""), Str("CPSC"), Arr(<<>>),
     Arr(<<Str("CPSC"), Str("MATH")>>), Arr(<<Str("CPSC"), Num(1)>>)}

levelPool ==
    {Undef, Null, Num(100), Str("100"), Str("500"), Arr(<<>>),
     Arr(<<Str("100"), Str("400")>>), Arr(<<Str("100"), Str("500")>>),
     Arr(<<Num(100)>>)}

courseCandidates ==
    {Obj([type |-> Str("course"), course |-> c, minGrade |-> g,
          canBeTakenConcurrently |-> cb, mustBeTakenConcurrently |-> mb]) :
        c \in {Undef, Str(""), Str("CPSC 110"), Num(110)},
        g \in minGradePool,
        cb \in {Undef, Bool(TRUE), Str("yes")},
        mb \in {Undef, Num(1)}}

amountPool == {Undef, Num(0), Num(-3), Num(3), Str("3")}

CreditCount(c, d, l, g) ==
    Obj([type |-> Str("credit_count"), credits |-> c, department |-> d,
         level |-> l, minGrade |-> g])

CourseCount(c, d, l, g) ==
    Obj([type |-> Str("course_count"), count |-> c, department |-> d,
         level |-> l, minGrade |-> g])

\* the fields vary two at a time around a valid node
creditCountCandidates ==
    {CreditCount(c, Undef, Undef, g) : c \in amountPool, g \in minGradePool}
    \cup {CreditCount(Num(3), d, l, Undef) : d \in departmentPool, l \in levelPool}
    \cup {CreditCount(Num(3), d, Str("100"), g) : d \in departmentPool, g \in minGradePool}
    \cup {CreditCount(Num(3), Str("CPSC"), l, g) : l \in levelPool, g \in minGradePool}

courseCountCandidates ==
    {CourseCount(c, Undef, Undef, g) : c \in amountPool, g \in minGradePool}
    \cup {CourseCount(Num(3), d, l, Undef) : d \in departmentPool, l \in levelPool}
    \cup {CourseCount(Num(3), d, Str("100"), g) : d \in departmentPool, g \in minGradePool}
    \cup {CourseCount(Num(3), Str("CPSC"), l, g) : l \in levelPool, g \in minGradePool}

notePool == {Undef, Str(""), Str("see advisor"), Num(1)}

otherLeafCandidates ==
    {Undef, Null, Bool(TRUE), Num(0), Num(7), Str(""), Str("CPSC 110"),
     Arr(<<>>), Arr(<<Course("CPSC 110")>>),
     Obj([note |-> Str("no type")]), Obj([type |-> Num(1)]),
     Obj([type |-> Str("")]), Obj([type |-> Str("lab")])}
    \cup {Obj([type |-> Str("standing"), standing |-> s]) :
            s \in {Undef, Num(1), Str("5th")} \cup {Str(x) : x \in validStandings}}
    \cup {Obj([type |-> Str("program"), program |-> n]) : n \in notePool}
    \cup {Obj([type |-> Str("permission"), note |-> n]) : n \in notePool}
    \cup {Obj([type |-> Str("other"), note |-> n]) : n \in notePool}
    \cup {Obj([type |-> Str("group"), logic |-> l, children |-> c]) :
            l \in {Undef, Str("ALL_OF"), Str("ANY_OF"), Num(1)},
            c \in {Undef, Null, Str("CPSC 110"), Course("CPSC 110")}}

\* leaves of the groups among the candidates: two valid, two invalid
nestedLeaves ==
    {Course("CPSC 110"), Standing("2nd"), Null, CourseWithGrade("MATH 100", Num(101))}

\* groups of leaves, with every logic and up to three children
flatGroups ==
    {Group(l, cs) :
        l \in {Str("ALL_OF"), Str("ONE_OF"), Str("TWO_OF"), Str("ANY_OF"), Undef},
        cs \in UNION {[1..m -> nestedLeaves] : m \in 0..3}}

\* leaves and group logics of the nested candidates
deepLeaves == {Course("CPSC 110"), Null}

nestedLogics == {Str("ALL_OF"), Str("ANY_OF")}

RECURSIVE ReqOfSize(_)
RECURSIVE ReqSeqOfSize(_)
\* the candidate trees with exactly n nodes (a group may have no children)
ReqOfSize(n) ==
    IF n = 1
    THEN deepLeaves \cup {Group(l, <<>>) : l \in nestedLogics}
    ELSE {Group(l, cs) : l \in nestedLogics, cs \in ReqSeqOfSize(n - 1)}

\* the non-empty sequences of candidate trees with n nodes in total
ReqSeqOfSize(n) ==
    {<<h>> : h \in ReqOfSize(n)}
    \cup UNION {{<<h>> \o t : h \in ReqOfSize(m), t \in ReqSeqOfSize(n - m)} :
                    m \in 1..(n - 1)}

nestedCandidates == UNION {ReqOfSize(n) : n \in 1..MaxReqNodes}

reqCandidates ==
    courseCandidates \cup creditCountCandidates \cup courseCountCandidates
    \cup otherLeafCandidates \cup flatGroups \cup nestedCandidates

Record(dept, code, pre, co, recPre, recCo) ==
    Obj([department |-> dept, code |-> code, prerequisites |-> pre,
         corequisites |-> co, recommendedPrerequisites |-> recPre,
         recommendedCorequisites |-> recCo])

headPool == {Undef, Str(""), Str("CPSC"), Num(110)}

fieldPool ==
    {Undef, Null, Num(0), Course("CPSC 110"), Group(Str("ALL_OF"), <<>>),
     Str("CPSC 110")}

topCandidates ==
    {Undef, Null, Num(0), Num(1), Str(""), Str("CPSC"), Bool(TRUE), Arr(<<>>),
     Obj([code |-> Str("110")])}
    \cup {Record(Str("CPSC"), Str("110"), r, Undef, Undef, Undef) :
            r \in reqCandidates}
    \cup {Record(Str("CPSC"), Str("110"), Undef, Undef, r, r) :
            r \in {Bool(FALSE), Str(""), Bool(TRUE)}}
    \cup {Record(d, c, p, q, Undef, Undef) :
            d \in headPool, c \in headPool,
            p \in {Undef, Course("CPSC 110"), Num(7)},
            q \in {Undef, Course("CPSC 110"), Num(7)}}
    \cup {Record(Str("CPSC"), Str("110"), p, q, rp, rq) :
            p \in fieldPool, q \in fieldPool, rp \in fieldPool, rq \in fieldPool}
    \cup {Record(Str("CPSC"), Str("110"), p, Group(Str("ONE_OF"), cs), rp, Undef) :
            p \in {Undef, Null, Course("CPSC 110")},
            cs \in [1..3 -> nestedLeaves],
            rp \in {Undef, Str("CPSC 110")}}

(***************************************************************************)
(* The validator as a state machine: a candidate arrives, the validator    *)
(* is applied once.                                                        *)
(***************************************************************************)
InitValidate ==
    /\ data \in topCandidates
    /\ result = NoResult
    /\ pc = "candidate"
    /\ node = Undef
    /\ courseDepths = <<>>
    /\ extracted = <<>>
    /\ depth = 0
    /\ courses = <<>>
    /\ changed = FALSE
    /\ maxIterations = 0
    /\ cursor = 0
    /\ nodes = <<>>
    /\ links = <<>>
    /\ files = <<>>
    /\ llmResult = Undef
    /\ runs = 0

\* const validation = validateParsedRequirements(llmResult.parsedRequirements)
Validate ==
    /\ pc = "candidate"
    /\ result' = validateParsedRequirements(data)
    /\ pc' = "validated"
    /\ UNCHANGED <<parseVars, data, node, courseDepths, extracted, depth, graphVars>>

NextValidate == Validate

SpecValidate == InitValidate /\ [][NextValidate]_vars

(***************************************************************************)
(* Vocabulary of the properties.                                           *)
(***************************************************************************)
requirementFields ==
    {"prerequisites", "corequisites", "recommendedPrerequisites",
     "recommendedCorequisites"}

\* the children of a node, as a sequence (empty when it has no children array)
ChildrenOf(n) ==
    IF IsArray(Get(n, "children")) THEN Get(n, "children").a ELSE <<>>

RECURSIVE Subtrees(_)
\* a value together with every node below it
Subtrees(v) ==
    {v} \cup UNION {Subtrees(ChildrenOf(v)[i]) : i \in 1..Len(ChildrenOf(v))}

\* every node of every optional field of the candidate
AllNodes == UNION {Subtrees(Get(data, f)) : f \in requirementFields}

IsNodeOfType(n, types) ==
    n.k = "object" /\ Get(n, "type").k = "string" /\ Get(n, "type").s \in types

IsGroupNode(n) == IsNodeOfType(n, {"group"})

Accepts(n) == validateRequirements(n).isValid

NonEmptyString(v) == v.k = "string" /\ v.s # ""

HeadValid ==
    /\ data.k = "object"
    /\ NonEmptyString(Get(data, "department"))
    /\ NonEmptyString(Get(data, "code"))

\* the node with one field removed
Without(n, name) == Obj([x \in (DOMAIN n.f) \ {name} |-> n.f[x]])

\* the group with only its first m children
Truncated(g, m) ==
    Obj([g.f EXCEPT !["children"] = Arr(SubSeq(g.f["children"].a, 1, m))])

\* the group with every child after the m-th replaced by a value
\* the validator rejects
Poisoned(g, m) ==
    Obj([g.f EXCEPT !["children"] =
            Arr([i \in 1..Len(g.f["children"].a) |->
                    IF i <= m THEN g.f["children"].a[i] ELSE Undef])])

(***************************************************************************)
(* C1: validateParsedRequirements accepts a top-level record if and only   *)
(* if department and code are non-empty strings and every optional field   *)
(* that is present on the record holds a valid Requirement tree; null,     *)
(* false, 0 and "" in such a field are rejected.                           *)
(***************************************************************************)
C1_AcceptsIffEveryPresentFieldValid ==
    (pc = "validated" /\ data.k = "object") =>
        (result.isValid <=>
            /\ NonEmptyString(Get(data, "department"))
            /\ NonEmptyString(Get(data, "code"))
            /\ \A f \in requirementFields :
                    Get(data, f) # Undef => Accepts(Get(data, f)))

(***************************************************************************)
(* C2: validity is compositional.  A group node is accepted iff its logic  *)
(* is ALL_OF, ONE_OF or TWO_OF, its children are a non-empty array and     *)
(* every child is accepted; hence an accepted tree has only accepted       *)
(* subtrees, at every depth, and an accepted record only accepted nodes.   *)
(***************************************************************************)
C2_Compositional ==
    pc = "validated" =>
        /\ \A g \in AllNodes :
                IsGroupNode(g) =>
                    (Accepts(g) <=>
                        /\ Get(g, "logic") \in {Str(l) : l \in {"ALL_OF", "ONE_OF", "TWO_OF"}}
                        /\ IsArray(Get(g, "children"))
                        /\ Len(ChildrenOf(g)) > 0
                        /\ \A i \in 1..Len(ChildrenOf(g)) : Accepts(ChildrenOf(g)[i]))
        /\ \A t \in AllNodes :
                Accepts(t) <=> \A s \in Subtrees(t) : Accepts(s)
        /\ result.isValid =>
                \A f \in requirementFields :
                    Truthy(Get(data, f)) =>
                        \A s \in Subtrees(Get(data, f)) : Accepts(s)

\* an accepted record whose prerequisites nest a group inside a group
C2_Witness ==
    /\ pc = "validated"
    /\ result.isValid
    /\ IsGroupNode(Get(data, "prerequisites"))
    /\ \E i \in 1..Len(ChildrenOf(Get(data, "prerequisites"))) :
            /\ IsGroupNode(ChildrenOf(Get(data, "prerequisites"))[i])
            /\ Len(ChildrenOf(ChildrenOf(Get(data, "prerequisites"))[i])) > 0

(***************************************************************************)
(* C3 as stated: every group node whose children sequence is empty is      *)
(* rejected, and the reason reported for that node is 'Group must have at  *)
(* least one child'.                                                       *)
(***************************************************************************)
C3_EmptyGroupReason ==
    pc = "validated" =>
        \A g \in AllNodes :
            (IsGroupNode(g) /\ IsArray(Get(g, "children")) /\ Len(ChildrenOf(g)) = 0) =>
                validateRequirements(g) = Err("Group must have at least one child")

(***************************************************************************)
(* C3 amended: every group node whose children sequence is empty is        *)
(* rejected; the reason is 'Group must have at least one child' when the   *)
(* node's logic is ALL_OF, ONE_OF or TWO_OF, and the logic reason          *)
(* otherwise (the logic is checked before the children).                   *)
(***************************************************************************)
C3_EmptyGroupRejected ==
    pc = "validated" =>
        \A g \in AllNodes :
            (IsGroupNode(g) /\ IsArray(Get(g, "children")) /\ Len(ChildrenOf(g)) = 0) =>
                validateRequirements(g) =
                    IF Get(g, "logic") \in {Str(l) : l \in {"ALL_OF", "ONE_OF", "TWO_OF"}}
                    THEN Err("Group must have at least one child")
                    ELSE Err("Group must have logic field with value ALL_OF, ONE_OF, or TWO_OF")

\* a record whose prerequisites are an empty ALL_OF group has been rejected
C3_Witness ==
    /\ pc = "validated"
    /\ Get(data, "prerequisites") = Group(Str("ALL_OF"), <<>>)
    /\ result = Err("Invalid prerequisites: Group must have at least one child")

(***************************************************************************)
(* C4: on course, credit_count and course_count nodes a present minGrade   *)
(* is accepted exactly when it is a number in [0,100]; an absent one is    *)
(* accepted.  So such a node is accepted iff it is accepted without its    *)
(* minGrade and the minGrade is absent or a number in [0,100]; 0 and 100   *)
(* pass, -1, 101 and non-numbers are rejected with the minGrade reason.    *)
(***************************************************************************)
GradeInRange(g) == g.k = "number" /\ g.n >= 0 /\ g.n <= 100

C4_MinGradeRange ==
    pc = "validated" =>
        \A n \in AllNodes :
            IsNodeOfType(n, {"course", "credit_count", "course_count"}) =>
                LET g == Get(n, "minGrade")
                IN  /\ Accepts(n) <=>
                            /\ Accepts(Without(n, "minGrade"))
                            /\ (g = Undef \/ GradeInRange(g))
                    /\ (Accepts(Without(n, "minGrade")) /\ g # Undef /\ ~GradeInRange(g)) =>
                            validateRequirements(n) =
                                Err("minGrade must be a number between 0 and 100")
                    /\ (Accepts(Without(n, "minGrade")) /\ g \in {Num(0), Num(100)}) =>
                            Accepts(n)
                    /\ g \in {Num(-1), Num(101), Str("80")} => ~Accepts(n)

\* a credit_count with minGrade 100 has been accepted
C4_Witness ==
    /\ pc = "validated"
    /\ result.isValid
    /\ IsNodeOfType(Get(data, "prerequisites"), {"credit_count"})
    /\ Get(Get(data, "prerequisites"), "minGrade") = Num(100)

(***************************************************************************)
(* C5: validation is fail-fast.  A group with valid logic and an invalid   *)
(* child reports 'Invalid child at index i: <reason of that child>' for    *)
(* the smallest index i of an invalid child, and no child after i is       *)
(* examined (the result does not depend on them).  At top level the four   *)
(* optional fields are checked in the order prerequisites, corequisites,   *)
(* recommendedPrerequisites, recommendedCorequisites, and the error is     *)
(* prefixed with the name of the first field whose validation fails.       *)
(***************************************************************************)
fieldOrder ==
    <<"prerequisites", "corequisites", "recommendedPrerequisites",
      "recommendedCorequisites">>

fieldPrefix ==
    [prerequisites |-> "Invalid prerequisites: ",
     corequisites |-> "Invalid corequisites: ",
     recommendedPrerequisites |-> "Invalid recommended prerequisites: ",
     recommendedCorequisites |-> "Invalid recommended corequisites: "]

\* validation of the j-th optional field fails
FieldFails(j) ==
    Truthy(Get(data, fieldOrder[j])) /\ ~Accepts(Get(data, fieldOrder[j]))

C6_ArraysNonEmpty ==
    pc = "validated" =>
        \A n \in AllNodes :
            (IsNodeOfType(n, {"credit_count", "course_count"}) /\ Accepts(n)) =>
                /\ IsArray(Get(n, "department")) =>
                        /\ Len(Get(n, "department").a) > 0
                        /\ \A i \in 1..Len(Get(n, "department").a) :
                                Get(n, "department").a[i].k = "string"
                /\ IsArray(Get(n, "level")) =>
                        /\ Len(Get(n, "level").a) > 0
                        /\ \A i \in 1..Len(Get(n, "level").a) :
                                Get(n, "level").a[i] \in
                                    {Str("100"), Str("200"), Str("300"), Str("400")}

(***************************************************************************)
(* C7: validateParsedRequirements is total and free of side effects: it    *)
(* returns a result for every input value, never changes its input, every  *)
(* isValid=false result carries a non-empty error reason and every         *)
(* isValid=true result carries none.                                       *)
(***************************************************************************)
C7_ResultShape ==
    /\ pc = "candidate" => ENABLED Validate
    /\ pc = "validated" =>
            /\ result # NoResult
            /\ result.isValid => DOMAIN result = {"isValid"}
            /\ ~result.isValid =>
                    /\ DOMAIN result = {"isValid", "error"}
                    /\ result.error # ""

C7_TotalAndPure == []C7_ResultShape /\ [][data' = data]_vars

\* a value that is not even an object has been rejected with a reason
C7_Witness ==
    /\ pc = "validated"
    /\ data = Num(0)
    /\ result = Err("Data must be an object")

(***************************************************************************)
(* Requirement trees the graph generator reads: trees the validator has    *)
(* accepted (they come from records with status 'parsed').                 *)
(***************************************************************************)
\* largest number of nodes of a generated requirement tree
MaxNodes == 4

\* largest depth recorded in a depth table
MaxTableDepth == 2

treeLeaves ==
    {Course("CPSC 110"), Course("CPSC 121"), Course("MATH 100"), Standing("2nd")}

treeLogics == {Str(l) : l \in groupLogics}

RECURSIVE TreeOfSize(_)
RECURSIVE TreeSeqOfSize(_)
\* the valid trees with exactly n nodes
TreeOfSize(n) ==
    IF n = 1
    THEN treeLeaves
    ELSE {Group(l, cs) : l \in treeLogics, cs \in TreeSeqOfSize(n - 1)}

\* the non-empty sequences of valid trees with n nodes in total
TreeSeqOfSize(n) ==
    {<<h>> : h \in TreeOfSize(n)}
    \cup UNION {{<<h>> \o t : h \in TreeOfSize(m), t \in TreeSeqOfSize(n - m)} :
                    m \in 1..(n - 1)}

TreesUpTo(n) == UNION {TreeOfSize(m) : m \in 1..n}

\* depth tables: two courses are in the table, MATH 100 is not
depthTables == [{"CPSC 110", "CPSC 121"} -> 0..MaxTableDepth]

\* the trees of the weight law and of the depth law
exampleTrees ==
    {Group(Str("ALL_OF"),
           <<Course("CPSC 110"),
             Group(Str("ONE_OF"), <<Course("CPSC 121"), Course("MATH 100")>>)>>),
     Group(Str("TWO_OF"),
           <<Course("CPSC 110"),
             Group(Str("ONE_OF"), <<Course("CPSC 121"), Standing("2nd"),
                                    Course("CPSC 110")>>),
             Course("MATH 100")>>)}

(***************************************************************************)
(* The extractor applied to a tree.                                        *)
(***************************************************************************)
InitExtract ==
    /\ node \in TreesUpTo(MaxNodes) \cup exampleTrees
    /\ pc = "tree"
    /\ extracted = <<>>
    /\ courseDepths = <<>>
    /\ depth = 0
    /\ data = Undef
    /\ result = NoResult
    /\ courses = <<>>
    /\ changed = FALSE
    /\ maxIterations = 0
    /\ cursor = 0
    /\ nodes = <<>>
    /\ links = <<>>
    /\ files = <<>>
    /\ llmResult = Undef
    /\ runs = 0

\* const prerequisiteCourses = extractCourseRequirementsWithValues(req.prerequisites)
Extract ==
    /\ pc = "tree"
    /\ extracted' = extractCourseRequirementsWithValues(node, defaultBaseValue)
    /\ pc' = "extracted"
    /\ UNCHANGED <<parseVars, data, result, node, courseDepths, depth, graphVars>>

NextExtract == Extract

SpecExtract == InitExtract /\ [][NextExtract]_vars

(***************************************************************************)
(* The depth combinator applied to a tree and a depth table.               *)
(***************************************************************************)
InitDepth ==
    /\ node \in TreesUpTo(MaxNodes) \cup exampleTrees
    /\ courseDepths \in depthTables
    /\ pc = "tree"
    /\ extracted = <<>>
    /\ depth = 0
    /\ data = Undef
    /\ result = NoResult
    /\ courses = <<>>
    /\ changed = FALSE
    /\ maxIterations = 0
    /\ cursor = 0
    /\ nodes = <<>>
    /\ links = <<>>
    /\ files = <<>>
    /\ llmResult = Undef
    /\ runs = 0

\* const prereqDepth = calculatePrerequisiteDepth(req.prerequisites, courseDepths)
CalculateDepth ==
    /\ pc = "tree"
    /\ depth' = calculatePrerequisiteDepth(node, courseDepths)
    /\ pc' = "measured"
    /\ UNCHANGED <<parseVars, data, result, node, courseDepths, extracted, graphVars>>

NextDepth == CalculateDepth

SpecDepth == InitDepth /\ [][NextDepth]_vars

(***************************************************************************)
(* Positions in a tree: a path is the sequence of child indices from the   *)
(* root; document order is the lexicographic order of paths.               *)
(***************************************************************************)
RECURSIVE PathsOf(_)
PathsOf(t) ==
    {<<>>} \cup UNION {{<<i>> \o q : q \in PathsOf(ChildrenOf(t)[i])} :
                            i \in 1..Len(ChildrenOf(t))}

RECURSIVE NodeAt(_, _)
NodeAt(t, path) ==
    IF path = <<>> THEN t ELSE NodeAt(ChildrenOf(t)[Head(path)], Tail(path))

CoursePaths(t) == {q \in PathsOf(t) : IsNodeOfType(NodeAt(t, q), {"course"})}

\* p comes before q in document order
Before(p, q) ==
    \E i \in 1..Len(p) :
        /\ i <= Len(q)
        /\ p[i] < q[i]
        /\ \A h \in 1..(i - 1) : p[h] = q[h]

\* the position of course leaf p among the course leaves, in document order
RankOf(t, p) == 1 + Cardinality({q \in CoursePaths(t) : Before(q, p)})

\* the proper ancestors of the node at path p, as paths
AncestorsOf(p) == {SubSeq(p, 1, m) : m \in 0..(Len(p) - 1)}


(***************************************************************************)
(* C8: for a tree the validator accepts, the extractor returns exactly one *)
(* entry per course leaf, in depth-first document order, duplicates kept;  *)
(* credit_count, course_count, standing, program, permission and other     *)
(* nodes contribute no entry.                                              *)
(***************************************************************************)
C8_OneEntryPerCourseLeaf ==
    (pc = "extracted" /\ Accepts(node)) =>
        /\ Len(extracted) = Cardinality(CoursePaths(node))
        /\ \A p \in CoursePaths(node) :
                extracted[RankOf(node, p)].course = Get(NodeAt(node, p), "course").s
        /\ \A n \in {Standing("2nd"),
                     CreditCount(Num(3), Undef, Undef, Undef),
                     CourseCount(Num(1), Undef, Undef, Undef),
                     Obj([type |-> Str("program"), program |-> Str("BSc")]),
                     Obj([type |-> Str("permission"), note |-> Str("dean")]),
                     Obj([type |-> Str("other"), note |-> Str("audition")])} :
                extractCourseRequirementsWithValues(n, defaultBaseValue) = <<>>

\* a nested tree with a repeated course and a standing leaf has been extracted
C8_Witness ==
    /\ pc = "extracted"
    /\ node = Group(Str("TWO_OF"),
                    <<Course("CPSC 110"),
                      Group(Str("ONE_OF"), <<Course("CPSC 121"), Standing("2nd"),
                                             Course("CPSC 110")>>),
                      Course("MATH 100")>>)
    /\ [i \in 1..Len(extracted) |-> extracted[i].course]
            = <<"CPSC 110", "CPSC 121", "CPSC 110", "MATH 100">>

(***************************************************************************)
(* C9: the weight of a course leaf is the base weight 1 transformed along  *)
(* its chain of ancestor groups: ALL_OF passes w on, ONE_OF with n         *)
(* children passes w/n, TWO_OF with n children passes 2w/n.  So            *)
(* ALL_OF[A, ONE_OF[B,C]] yields A:1, B:1/2, C:1/2.                        *)
(***************************************************************************)
\* numerator and denominator of the factor a group contributes
FactorNum(g) == IF Get(g, "logic") = Str("TWO_OF") THEN 2 ELSE 1

FactorDen(g) ==
    IF Get(g, "logic") \in {Str("ONE_OF"), Str("TWO_OF")}
    THEN Len(ChildrenOf(g)) ELSE 1

RECURSIVE NumProduct(_, _)
\* the product of the numerators of the groups at the paths of S
NumProduct(t, S) ==
    IF S = {} THEN 1
    ELSE LET x == CHOOSE x \in S : TRUE
         IN  FactorNum(NodeAt(t, x)) * NumProduct(t, S \ {x})

RECURSIVE DenProduct(_, _)
\* the product of the denominators of the groups at the paths of S
DenProduct(t, S) ==
    IF S = {} THEN 1
    ELSE LET x == CHOOSE x \in S : TRUE
         IN  FactorDen(NodeAt(t, x)) * DenProduct(t, S \ {x})

C9_WeightAlongAncestors ==
    pc = "extracted" =>
        /\ \A p \in CoursePaths(node) :
                LET value == extracted[RankOf(node, p)].value
                IN  value.num * DenProduct(node, AncestorsOf(p))
                        = value.den * NumProduct(node, AncestorsOf(p))
        /\ node = Group(Str("ALL_OF"),
                        <<Course("CPSC 110"),
                          Group(Str("ONE_OF"), <<Course("CPSC 121"), Course("MATH 100")>>)>>)
            => extracted = <<[course |-> "CPSC 110", value |-> [num |-> 1, den |-> 1]],
                             [course |-> "CPSC 121", value |-> [num |-> 1, den |-> 2]],
                             [course |-> "MATH 100", value |-> [num |-> 1, den |-> 2]]>>

\* a course under a ONE_OF of three inside a TWO_OF of three has weight 2/9
C9_Witness ==
    /\ pc = "extracted"
    /\ Get(node, "logic") = Str("TWO_OF")
    /\ Len(extracted) = 4
    /\ extracted[1] = [course |-> "CPSC 110", value |-> [num |-> 2, den |-> 3]]
    /\ extracted[3] = [course |-> "CPSC 110", value |-> [num |-> 2, den |-> 9]]

(***************************************************************************)
(* C10: on a group, calculatePrerequisiteDepth computes each child's depth *)
(* against the table, drops the zeros, and returns the minimum for ONE_OF, *)
(* the second-smallest for TWO_OF (the single value when one remains), the *)
(* maximum for ALL_OF, and 0 when nothing remains.  With Y at table depth  *)
(* 1 and Z at table depth 2: ALL_OF[Y,Z] = 3, ONE_OF[Y,Z] = 2,             *)
(* TWO_OF[Y,Z] = 3.                                                        *)
(***************************************************************************)
\* the depth of the i-th child of g against the table
ChildDepth(g, i) == calculatePrerequisiteDepth(ChildrenOf(g)[i], courseDepths)

\* the children of g left after the zeros are dropped
NonZero(g) == {i \in 1..Len(ChildrenOf(g)) : ChildDepth(g, i) > 0}

\* how many of the remaining children have depth below / at most d
CountBelow(g, d) == Cardinality({i \in NonZero(g) : ChildDepth(g, i) < d})

CountUpTo(g, d) == Cardinality({i \in NonZero(g) : ChildDepth(g, i) <= d})

\* r is what the combinator must return on group g
GroupDepthLaw(g, r) ==
    LET logic == Get(g, "logic").s
    IN  IF NonZero(g) = {} THEN r = 0
        ELSE /\ \E i \in NonZero(g) : ChildDepth(g, i) = r
             /\ logic = "ONE_OF" => CountBelow(g, r) = 0
             /\ logic = "ALL_OF" => CountUpTo(g, r) = Cardinality(NonZero(g))
             /\ logic = "TWO_OF" =>
                    IF Cardinality(NonZero(g)) = 1 THEN TRUE
                    ELSE CountBelow(g, r) <= 1 /\ CountUpTo(g, r) >= 2

DepthLawExample(logic, expected) ==
    (/\ node = Group(Str(logic), <<Course("CPSC 110"), Course("CPSC 121")>>)
     /\ courseDepths["CPSC 110"] = 1
     /\ courseDepths["CPSC 121"] = 2) => depth = expected

C10_GroupDepth ==
    pc = "measured" =>
        /\ IsGroupNode(node) => GroupDepthLaw(node, depth)
        /\ \A g \in Subtrees(node) :
                IsGroupNode(g) =>
                    GroupDepthLaw(g, calculatePrerequisiteDepth(g, courseDepths))
        /\ DepthLawExample("ALL_OF", 3)
        /\ DepthLawExample("ONE_OF", 2)
        /\ DepthLawExample("TWO_OF", 3)

\* a TWO_OF over child depths 3, 1 and 2 has been measured as 2
C10_Witness ==
    /\ pc = "measured"
    /\ node = Group(Str("TWO_OF"),
                    <<Course("CPSC 121"), Course("MATH 100"), Course("CPSC 110")>>)
    /\ courseDepths["CPSC 110"] = 1
    /\ courseDepths["CPSC 121"] = 2
    /\ depth = 2

(***************************************************************************)
(* generateNodesAndLinks: the depth relaxation over the parsed courses,    *)
(* then the assembly of nodes and links.  A course record is               *)
(* [course, status, parsedRequirements]; parsedRequirements is a           *)
(* JavaScript value, undefined when the record has none.                   *)
(***************************************************************************)
\* the filter without the test of the status
IsParsedCourse_AnyStatus(course) == Truthy(course.parsedRequirements)

\* courses.filter(course => course.status === 'parsed' && course.parsedRequirements)
IsParsedCourse(course) ==
    course.status = "parsed" /\ Truthy(course.parsedRequirements)

parsedCourses == SelectSeq(courses, IsParsedCourse)

\* let maxIterations = 10
iterationCeiling == 10

\* Math.max(a, b)
MaxInt(a, b) == IF a >= b THEN a ELSE b

\* maxDepth starting from 1 instead of 0
RequirementsDepth_FloorOne(req, table) ==
    LET prereqDepth ==
            IF Truthy(Get(req, "prerequisites"))
            THEN calculatePrerequisiteDepth(Get(req, "prerequisites"), table)
            ELSE 0
        coreqDepth ==
            IF Truthy(Get(req, "corequisites"))
            THEN calculatePrerequisiteDepth(Get(req, "corequisites"), table)
            ELSE 0
    IN  MaxInt(MaxInt(1, prereqDepth), coreqDepth)

\* maxDepth of one course against the table: the larger of the depths of
\* its prerequisites and corequisites trees, each skipped when falsy
RequirementsDepth(req, table) ==
    LET prereqDepth ==
            IF Truthy(Get(req, "prerequisites"))
            THEN calculatePrerequisiteDepth(Get(req, "prerequisites"), table)
            ELSE 0
        coreqDepth ==
            IF Truthy(Get(req, "corequisites"))
            THEN calculatePrerequisiteDepth(Get(req, "corequisites"), table)
            ELSE 0
    IN  MaxInt(MaxInt(0, prereqDepth), coreqDepth)

\* courseDepths.set(courseId, depth)
TableSet(table, id, d) == (id :> d) @@ table

RECURSIVE InitialDepths(_, _)
\* parsedCourses.forEach(course => courseDepths.set(course.course, 0))
InitialDepths(pcs, i) ==
    IF i > Len(pcs) THEN <<>>
    ELSE TableSet(InitialDepths(pcs, i + 1), pcs[i].course, 0)

(***************************************************************************)
(* Nodes and links.                                                        *)
(***************************************************************************)
RECURSIVE FirstSpace(_, _)
\* the index of the first ' ' of id at or after i, 0 when there is none
FirstSpace(id, i) ==
    IF i > Len(id) THEN 0
    ELSE IF SubSeq(id, i, i) = " " THEN i ELSE FirstSpace(id, i + 1)

\* id.split(' ')[0]
LeadingToken(id) ==
    IF FirstSpace(id, 1) = 0 THEN id ELSE SubSeq(id, 1, FirstSpace(id, 1) - 1)

\* id.split(' ')[0] || 'UNKNOWN'
DeptOfId(id) == IF LeadingToken(id) = "" THEN "UNKNOWN" ELSE LeadingToken(id)

NewNode(id, dept, d) ==
    [id |-> id, title |-> id, dept |-> dept, size |-> 0, depth |-> d]

\* nodesMap.has(id)
HasNode(nodesMap, id) == \E i \in 1..Len(nodesMap) : nodesMap[i].id = id

\* the node stored without the has() test
AddNode_Always(nodesMap, n) == Append(nodesMap, n)

\* if (!nodesMap.has(id)) nodesMap.set(id, node)
AddNode(nodesMap, n) ==
    IF HasNode(nodesMap, n.id) THEN nodesMap ELSE Append(nodesMap, n)

\* `${source}->${target}`
LinkKey(source, target) == source \o "->" \o target

\* Math.floor in the place of Math.round
Round2_Truncates(value) == Frac((100 * value.num) \div value.den, 100)

\* Math.round(value * 100) / 100, for value >= 0
Round2(value) ==
    Frac((200 * value.num + value.den) \div (2 * value.den), 100)

\* a < b on link values
FracLess(a, b) == a.num * b.den < b.num * a.den

\* linkMap.set(key, link) whatever the stored value
UpsertLink_Overwrites(linkMap, source, target, value) ==
    LET key == LinkKey(source, target)
        link == [key |-> key, source |-> source, target |-> target, value |-> value]
        slots == {i \in 1..Len(linkMap) : linkMap[i].key = key}
    IN  IF slots = {}
        THEN Append(linkMap, link)
        ELSE [linkMap EXCEPT ![CHOOSE i \in slots : TRUE] = link]

\* if (!linkMap.has(key) || linkMap.get(key).value < value) linkMap.set(key, link)
UpsertLink(linkMap, source, target, value) ==
    LET key == LinkKey(source, target)
        link == [key |-> key, source |-> source, target |-> target, value |-> value]
        slots == {i \in 1..Len(linkMap) : linkMap[i].key = key}
    IN  IF slots = {}
        THEN Append(linkMap, link)
        ELSE LET i == CHOOSE i \in slots : TRUE
             IN  IF FracLess(linkMap[i].value, value)
                 THEN [linkMap EXCEPT ![i] = link]
                 ELSE linkMap

RECURSIVE RegisterPrerequisites(_, _, _, _, _)

\* the reverse edge registered as well, as for a corequisite
RegisterPrerequisites_BothDirections(st, targetId, entries, i, table) ==
    IF i > Len(entries) THEN st
    ELSE LET prereqId == entries[i].course
             roundedValue == Round2(entries[i].value)
             nodesMap == AddNode(st.nodesMap,
                                 NewNode(prereqId, DeptOfId(prereqId),
                                         DepthOf(table, prereqId)))
             linkMap1 == UpsertLink(st.linkMap, prereqId, targetId, roundedValue)
             linkMap2 == UpsertLink(linkMap1, targetId, prereqId, roundedValue)
         IN  RegisterPrerequisites([nodesMap |-> nodesMap, linkMap |-> linkMap2],
                                   targetId, entries, i + 1, table)

\* for (const { course: prereqId, value } of prerequisiteCourses) { ... }
RegisterPrerequisites(st, targetId, entries, i, table) ==
    IF i > Len(entries) THEN st
    ELSE LET prereqId == entries[i].course
             roundedValue == Round2(entries[i].value)
             nodesMap == AddNode(st.nodesMap,
                                 NewNode(prereqId, DeptOfId(prereqId),
                                         DepthOf(table, prereqId)))
             linkMap == UpsertLink(st.linkMap, prereqId, targetId, roundedValue)
         IN  RegisterPrerequisites([nodesMap |-> nodesMap, linkMap |-> linkMap],
                                   targetId, entries, i + 1, table)

RECURSIVE RegisterCorequisites(_, _, _, _, _)

\* the second upsert left out: only coreqId -> targetId is registered
RegisterCorequisites_OneDirection(st, targetId, entries, i, table) ==
    IF i > Len(entries) THEN st
    ELSE LET coreqId == entries[i].course
             roundedValue == Round2(entries[i].value)
             nodesMap == AddNode(st.nodesMap,
                                 NewNode(coreqId, DeptOfId(coreqId),
                                         DepthOf(table, coreqId)))
             linkMap1 == UpsertLink(st.linkMap, coreqId, targetId, roundedValue)
         IN  RegisterCorequisites([nodesMap |-> nodesMap, linkMap |-> linkMap1],
                                  targetId, entries, i + 1, table)

\* for (const { course: coreqId, value } of corequisiteCourses) { ... }
RegisterCorequisites(st, targetId, entries, i, table) ==
    IF i > Len(entries) THEN st
    ELSE LET coreqId == entries[i].course
             roundedValue == Round2(entries[i].value)
             nodesMap == AddNode(st.nodesMap,
                                 NewNode(coreqId, DeptOfId(coreqId),
                                         DepthOf(table, coreqId)))
             linkMap1 == UpsertLink(st.linkMap, coreqId, targetId, roundedValue)
             linkMap2 == UpsertLink(linkMap1, targetId, coreqId, roundedValue)
         IN  RegisterCorequisites([nodesMap |-> nodesMap, linkMap |-> linkMap2],
                                  targetId, entries, i + 1, table)

\* the body of "for (const course of parsedCourses)" in the second pass
AssembleCourse(st, course, table) ==
    LET targetId == course.course
        req == course.parsedRequirements
        withTarget ==
            [nodesMap |-> AddNode(st.nodesMap,
                                  NewNode(targetId, Get(req, "department").s,
                                          DepthOf(table, targetId))),
             linkMap |-> st.linkMap]
        withPrereqs ==
            IF Truthy(Get(req, "prerequisites"))
            THEN RegisterPrerequisites(
                    withTarget, targetId,
                    extractCourseRequirementsWithValues(Get(req, "prerequisites"),
                                                        defaultBaseValue),
                    1, table)
            ELSE withTarget
    IN  IF Truthy(Get(req, "corequisites"))
        THEN RegisterCorequisites(
                withPrereqs, targetId,
                extractCourseRequirementsWithValues(Get(req, "corequisites"),
                                                    defaultBaseValue),
                1, table)
        ELSE withPrereqs

\* const linkArray = Array.from(linkMap.values())
LinkArray(linkMap) ==
    [i \in 1..Len(linkMap) |->
        [source |-> linkMap[i].source, target |-> linkMap[i].target,
         value |-> linkMap[i].value]]

\* the links counted at their source instead of their target
IncomingCount_BySource(linkArray, id) ==
    Cardinality({i \in 1..Len(linkArray) : linkArray[i].source = id})

\* incomingCounts.get(id) || 0
IncomingCount(linkArray, id) ==
    Cardinality({i \in 1..Len(linkArray) : linkArray[i].target = id})

\* nodesMap.forEach((node, id) => { node.size = incomingCounts.get(id) || 0 })
WithSizes(nodesMap, linkArray) ==
    [i \in 1..Len(nodesMap) |->
        [nodesMap[i] EXCEPT !.size = IncomingCount(linkArray, nodesMap[i].id)]]

\* linkedNodeIds: every source and every target of a link
LinkedNodeIds(linkArray) ==
    {linkArray[i].source : i \in 1..Len(linkArray)}
    \cup {linkArray[i].target : i \in 1..Len(linkArray)}

\* the filter left out
PruneNodes_KeepsAll(nodesMap, linkArray) == nodesMap

\* Array.from(nodesMap.values()).filter(node => linkedNodeIds.has(node.id))
PruneNodes(nodesMap, linkArray) ==
    SelectSeq(nodesMap, LAMBDA n : n.id \in LinkedNodeIds(linkArray))

(***************************************************************************)
(* One run of generateNodesAndLinks, the relaxation one course at a time.  *)
(***************************************************************************)
\* a run that allows one pass only
Start_SinglePass ==
    /\ pc = "start"
    /\ courseDepths' = InitialDepths(parsedCourses, 1)
    /\ maxIterations' = 1
    /\ changed' = TRUE
    /\ pc' = "loop"
    /\ UNCHANGED <<parseVars, data, result, node, extracted, depth, courses, cursor, nodes, links>>

\* lines 388-409: the maps, the filter, the table of zeros, the loop variables
Start ==
    /\ pc = "start"
    /\ courseDepths' = InitialDepths(parsedCourses, 1)
    /\ maxIterations' = iterationCeiling
    /\ changed' = TRUE
    /\ pc' = "loop"
    /\ UNCHANGED <<parseVars, data, result, node, extracted, depth, courses, cursor, nodes, links>>

\* the loop test without "changed": ten passes whatever happens
BeginPass_IgnoresChanged ==
    /\ pc = "loop"
    /\ maxIterations > 0
    /\ changed' = FALSE
    /\ maxIterations' = maxIterations - 1
    /\ cursor' = 1
    /\ pc' = "pass"
    /\ UNCHANGED <<parseVars, data, result, node, extracted, depth, courses, courseDepths,
                   nodes, links>>

\* while (changed && maxIterations > 0) { changed = false; maxIterations--; ...
BeginPass ==
    /\ pc = "loop"
    /\ changed /\ maxIterations > 0
    /\ changed' = FALSE
    /\ maxIterations' = maxIterations - 1
    /\ cursor' = 1
    /\ pc' = "pass"
    /\ UNCHANGED <<parseVars, data, result, node, extracted, depth, courses, courseDepths,
                   nodes, links>>

\* a callback that raises the flag on every visit
RelaxCourse_FlagsEveryVisit ==
    /\ pc = "pass"
    /\ cursor <= Len(parsedCourses)
    /\ LET course == parsedCourses[cursor]
           maxDepth == RequirementsDepth(course.parsedRequirements, courseDepths)
           currentDepth == DepthOf(courseDepths, course.course)
       IN  IF maxDepth > currentDepth
           THEN courseDepths' = TableSet(courseDepths, course.course, maxDepth)
           ELSE UNCHANGED courseDepths
    /\ changed' = TRUE
    /\ cursor' = cursor + 1
    /\ UNCHANGED <<parseVars, data, result, pc, node, extracted, depth, courses, maxIterations,
                   nodes, links>>

\* the forEach callback on parsedCourses[cursor]
RelaxCourse ==
    /\ pc = "pass"
    /\ cursor <= Len(parsedCourses)
    /\ LET course == parsedCourses[cursor]
           maxDepth == RequirementsDepth(course.parsedRequirements, courseDepths)
           currentDepth == DepthOf(courseDepths, course.course)
       IN  IF maxDepth > currentDepth
           THEN /\ courseDepths' = TableSet(courseDepths, course.course, maxDepth)
                /\ changed' = TRUE
           ELSE UNCHANGED <<courseDepths, changed>>
    /\ cursor' = cursor + 1
    /\ UNCHANGED <<parseVars, data, result, pc, node, extracted, depth, courses, maxIterations,
                   nodes, links>>

\* the forEach has visited every parsed course: back to the loop test
EndPass ==
    /\ pc = "pass"
    /\ cursor > Len(parsedCourses)
    /\ pc' = "loop"
    /\ UNCHANGED <<parseVars, data, result, node, extracted, depth, courses, courseDepths,
                   changed, maxIterations, cursor, nodes, links>>

\* the loop test fails: on to the second pass
EndRelaxation ==
    /\ pc = "loop"
    /\ ~(changed /\ maxIterations > 0)
    /\ cursor' = 1
    /\ pc' = "assemble"
    /\ UNCHANGED <<parseVars, data, result, node, extracted, depth, courses, courseDepths,
                   changed, maxIterations, nodes, links>>

\* one iteration of "for (const course of parsedCourses)": during the second
\* pass nodes and links hold nodesMap and linkMap
AssembleNext ==
    /\ pc = "assemble"
    /\ cursor <= Len(parsedCourses)
    /\ LET st == AssembleCourse([nodesMap |-> nodes, linkMap |-> links],
                                parsedCourses[cursor], courseDepths)
       IN  /\ nodes' = st.nodesMap
           /\ links' = st.linkMap
    /\ cursor' = cursor + 1
    /\ UNCHANGED <<parseVars, data, result, pc, node, extracted, depth, courses, courseDepths,
                   changed, maxIterations>>

\* after the second pass: sizes, pruning, return
Finish ==
    /\ pc = "assemble"
    /\ cursor > Len(parsedCourses)
    /\ LET linkArray == LinkArray(links)
       IN  /\ nodes' = PruneNodes(WithSizes(nodes, linkArray), linkArray)
           /\ links' = linkArray
    /\ pc' = "done"
    /\ UNCHANGED <<parseVars, data, result, node, extracted, depth, courses, courseDepths,
                   changed, maxIterations, cursor>>

NextGraph ==
    Start \/ BeginPass \/ RelaxCourse \/ EndPass \/ EndRelaxation \/ AssembleNext \/ Finish

(***************************************************************************)
(* Course sets handed to generateNodesAndLinks.  Small sets take every     *)
(* combination of a pool of requirement records, cycles and self           *)
(* references included; chains are the deep dependency DAGs.               *)
(***************************************************************************)
\* largest number of courses of a small course set
MaxCourses == 2

\* longest chain of courses each requiring the previous one
MaxChain == 11

\* the id of the course at position i of a small course set
courseIdAt(i) ==
    IF i = 1 THEN "CPSC 110"
    ELSE IF i = 2 THEN "CPSC 121"
    ELSE IF i = 3 THEN "MATH 100"
    ELSE "CPSC " \o ToString(300 + i)

Requirements(id, pre, co) ==
    Record(Str(DeptOfId(id)), Str(SubSeq(id, FirstSpace(id, 1) + 1, Len(id))),
           pre, co, Undef, Undef)

OneOfThree ==
    Group(Str("ONE_OF"), <<Course("CPSC 110"), Course("CPSC 121"), Course("MATH 100")>>)

TwoOfThree ==
    Group(Str("TWO_OF"), <<Course("CPSC 110"), Course("CPSC 121"), Course("MATH 100")>>)

OneOfTwo == Group(Str("ONE_OF"), <<Course("CPSC 121"), Course("MATH 100")>>)

\* two of a single alternative: the extractor gives it weight 2
TwoOfOne == Group(Str("TWO_OF"), <<Course("CPSC 121")>>)

\* the (prerequisites, corequisites) pairs of the pool
requirementPairs ==
    {<<Undef, Undef>>,
     <<Course("CPSC 110"), Undef>>,
     <<Course("CPSC 121"), Undef>>,
     <<Course("MATH 100"), Undef>>,
     <<Course("PHYS 101"), Undef>>,
     <<Undef, Course("CPSC 110")>>,
     <<Undef, Course("CPSC 121")>>,
     <<Course("CPSC 121"), OneOfTwo>>,
     <<OneOfThree, Undef>>,
     <<TwoOfThree, Undef>>,
     <<Undef, TwoOfThree>>,
     <<Group(Str("ALL_OF"), <<Course("CPSC 121"), TwoOfOne>>), Undef>>,
     <<Group(Str("ALL_OF"), <<TwoOfOne, Course("CPSC 121")>>), Undef>>,
     <<Group(Str("ALL_OF"), <<Course("CPSC 110"), Course("CPSC 121")>>),
       Course("MATH 100")>>,
     <<Standing("2nd"), Standing("3rd")>>}

\* the records a course file can hold for the course id
courseFiles(id) ==
    {[course |-> id, status |-> "parsed",
      parsedRequirements |-> Requirements(id, p[1], p[2])] : p \in requirementPairs}
    \cup {[course |-> id, status |-> "parsed",
           parsedRequirements |->
               Record(Str("APSC"), Str("160"), Course("PHYS 101"), Undef, Undef, Undef)],
          [course |-> id, status |-> "parsed", parsedRequirements |-> Undef],
          [course |-> id, status |-> "error",
           parsedRequirements |-> Requirements(id, Course("CPSC 110"), Undef)]}

RECURSIVE CourseSetsOfLen(_)
CourseSetsOfLen(n) ==
    IF n = 0 THEN {<<>>}
    ELSE {Append(cs, c) : cs \in CourseSetsOfLen(n - 1), c \in courseFiles(courseIdAt(n))}

\* the same course files as listed and in the opposite order: every
\* ordering of two files
OrderingsOf(cs) ==
    {cs, [i \in 1..Len(cs) |-> cs[Len(cs) + 1 - i]]}

smallCourseSets ==
    UNION {UNION {OrderingsOf(cs) : cs \in CourseSetsOfLen(n)} : n \in 0..MaxCourses}

chainId(i) == "CHEM " \o ToString(100 + i)

\* course i of a chain requires course i - 1; course 0 has no record
chainCourse(i) ==
    [course |-> chainId(i), status |-> "parsed",
     parsedRequirements |-> Requirements(chainId(i), Course(chainId(i - 1)), Undef)]

\* a chain of n courses, prerequisites first or dependents first
chainCourseSets ==
    {[i \in 1..n |-> chainCourse(i)] : n \in 1..MaxChain}
    \cup {[i \in 1..n |-> chainCourse(n + 1 - i)] : n \in 1..MaxChain}

InitGraph ==
    /\ courses \in smallCourseSets \cup chainCourseSets
    /\ pc = "start"
    /\ courseDepths = <<>>
    /\ changed = FALSE
    /\ maxIterations = 0
    /\ cursor = 0
    /\ nodes = <<>>
    /\ links = <<>>
    /\ files = <<>>
    /\ llmResult = Undef
    /\ runs = 0
    /\ data = Undef
    /\ result = NoResult
    /\ node = Undef
    /\ extracted = <<>>
    /\ depth = 0

SpecGraph == InitGraph /\ [][NextGraph]_vars

(***************************************************************************)
(* Vocabulary of the claims about the graph.                               *)
(***************************************************************************)
\* the prerequisites and corequisites values of a course record
TreesOf(course) ==
    {Get(course.parsedRequirements, f) : f \in {"prerequisites", "corequisites"}}

HasCourseLeaf(t) == \E n \in Subtrees(t) : IsNodeOfType(n, {"course"})

\* the run has initialised the depth table
TableReady == pc \in {"loop", "pass", "assemble", "done"}

PassesBegun == iterationCeiling - maxIterations

\* the number of steps the run can still take, at most
StepsLeft ==
    LET width == Len(parsedCourses) + 3
    IN  CASE pc = "start" -> (iterationCeiling + 1) * width + 2
          [] pc = "loop" -> (maxIterations + 1) * width + 1
          [] pc = "pass" ->
                (maxIterations + 1) * width + 2 + (Len(parsedCourses) + 1 - cursor)
          [] pc = "assemble" -> 1 + (Len(parsedCourses) + 1 - cursor)
          [] OTHER -> 0

C12_StartsAtZero ==
    pc = "start" =>
        courseDepths' = [id \in {parsedCourses[i].course : i \in 1..Len(parsedCourses)} |-> 0]

C12_StopRule ==
    /\ (pc = "loop" /\ pc' = "pass") => (changed /\ PassesBegun < 10)
    /\ (pc = "loop" /\ (~changed \/ PassesBegun >= 10)) => pc' = "assemble"
    /\ (pc = "pass" /\ pc' # "pass") => (pc' = "loop" /\ cursor = Len(parsedCourses) + 1)
    /\ (pc = "pass" /\ pc' = "pass") => cursor' = cursor + 1
    /\ pc \in {"loop", "assemble"} => courseDepths' = courseDepths

C12_Terminates ==
    /\ [](TableReady => PassesBegun \in 0..10)
    /\ [][C12_StartsAtZero]_vars
    /\ [][C12_StopRule]_vars
    /\ [](StepsLeft >= 0 /\ (StepsLeft = 0 <=> pc = "done"))
    /\ [][StepsLeft' < StepsLeft]_vars

\* two courses requiring each other: ten passes, the last one still changing
\* depths, and the table is returned as it is
C12_Witness ==
    /\ pc = "done"
    /\ Len(courses) = 2
    /\ PassesBegun = 10
    /\ changed
    /\ courseDepths = ("CPSC 110" :> 19 @@ "CPSC 121" :> 20)

(***************************************************************************)
(* C13: for every course set whose course-to-course dependencies form a    *)
(* DAG, the returned depth table is the critical-path fixed point: the     *)
(* depth of every parsed course equals the larger of the combinator on its *)
(* prerequisites tree and on its corequisites tree, evaluated on the       *)
(* returned table.                                                         *)
(***************************************************************************)
\* the ids of the course leaves of a tree
LeafIds(t) ==
    {Get(n, "course").s : n \in {m \in Subtrees(t) : IsNodeOfType(m, {"course"})}}

\* the ids a parsed course lists in its prerequisites or corequisites
RequiredBy(course) == UNION {LeafIds(t) : t \in TreesOf(course)}

\* the ids listed by the parsed courses whose id is in S
Successors(S) ==
    UNION {RequiredBy(parsedCourses[i]) :
                i \in {j \in 1..Len(parsedCourses) : parsedCourses[j].course \in S}}

RECURSIVE Closure(_, _)
Closure(S, n) == IF n = 0 THEN S ELSE Closure(S \cup Successors(S), n - 1)

\* no parsed course depends on itself, directly or through other courses
IsDAG ==
    \A i \in 1..Len(parsedCourses) :
        parsedCourses[i].course
            \notin Closure(Successors({parsedCourses[i].course}), Len(parsedCourses))

IsFixedPoint(table) ==
    \A i \in 1..Len(parsedCourses) :
        DepthOf(table, parsedCourses[i].course)
            = RequirementsDepth(parsedCourses[i].parsedRequirements, table)

C13_FixedPointOnDAG == (pc = "done" /\ IsDAG) => IsFixedPoint(courseDepths)

(***************************************************************************)
(* C14: edge upsert keeps the maximum.  After any sequence of              *)
(* registrations for one ordered (source, target) pair the stored value is *)
(* the largest value registered for the pair, whatever the order; a stored *)
(* edge is replaced only by a strictly larger value; (A,B,1) then (A,B,2)  *)
(* and (A,B,2) then (A,B,1) both end with value 2.                         *)
(***************************************************************************)
\* the elements of a sequence
Elements(seq) == {seq[i] : i \in 1..Len(seq)}

\* the (course, value) entries of one requirements field of a course
EntriesOf(course, field) ==
    IF Truthy(Get(course.parsedRequirements, field))
    THEN Elements(extractCourseRequirementsWithValues(
                      Get(course.parsedRequirements, field), defaultBaseValue))
    ELSE {}

Registration(source, target, value) ==
    [source |-> source, target |-> target, value |-> value]

\* the edges a course registers, with the values it registers them with
RegistrationsOf(course) ==
    {Registration(e.course, course.course, Round2(e.value)) :
            e \in EntriesOf(course, "prerequisites")}
    \cup {Registration(e.course, course.course, Round2(e.value)) :
            e \in EntriesOf(course, "corequisites")}
    \cup {Registration(course.course, e.course, Round2(e.value)) :
            e \in EntriesOf(course, "corequisites")}

\* the registrations made by the first k parsed courses
RegisteredUpTo(k) == UNION {RegistrationsOf(parsedCourses[i]) : i \in 1..k}

\* the number of parsed courses the second pass has handled
Assembled ==
    IF pc = "assemble" THEN cursor - 1
    ELSE IF pc = "done" THEN Len(parsedCourses) ELSE 0

SamePair(a, b) == a.source = b.source /\ a.target = b.target

C14_StoredIsMaximum ==
    /\ \A i, j \in 1..Len(links) : SamePair(links[i], links[j]) => i = j
    /\ \A r \in RegisteredUpTo(Assembled) :
            \E i \in 1..Len(links) :
                SamePair(links[i], r) /\ ~FracLess(links[i].value, r.value)
    /\ \A i \in 1..Len(links) :
            \E r \in RegisteredUpTo(Assembled) :
                SamePair(links[i], r) /\ links[i].value = r.value

\* during the second pass a stored edge keeps its place and never loses value
C14_NoDowngrade ==
    (pc = "assemble" /\ pc' = "assemble") =>
        \A i \in 1..Len(links) :
            /\ i <= Len(links')
            /\ SamePair(links'[i], links[i])
            /\ ~FracLess(links'[i].value, links[i].value)

\* CPSC 121 registered for CPSC 110 with values 1 then 2, and 2 then 1
C14_Example(first, second) ==
    (/\ pc = "done"
     /\ Len(courses) = 1
     /\ courses[1].status = "parsed"
     /\ TreesOf(courses[1]) = {Group(Str("ALL_OF"), <<first, second>>), Undef})
        => links = <<Registration("CPSC 121", "CPSC 110", Frac(2, 1))>>

C14_UpsertKeepsMaximum ==
    /\ [](C14_StoredIsMaximum
          /\ C14_Example(Course("CPSC 121"), TwoOfOne)
          /\ C14_Example(TwoOfOne, Course("CPSC 121")))
    /\ [][C14_NoDowngrade]_vars

\* value 2 was registered first and value 1 afterwards: the edge still has 2
C14_Witness ==
    /\ pc = "done"
    /\ Len(courses) = 1
    /\ courses[1].status = "parsed"
    /\ TreesOf(courses[1]) = {Group(Str("ALL_OF"), <<TwoOfOne, Course("CPSC 121")>>), Undef}
    /\ links = <<Registration("CPSC 121", "CPSC 110", Frac(2, 1))>>

(***************************************************************************)
(* C15: corequisite symmetry.  As stated: for every course A whose         *)
(* corequisites tree contains course leaf B, the final edges contain both  *)
(* B->A and A->B and the two have equal value, for every course set and    *)
(* registration order.                                                     *)
(***************************************************************************)
\* the output edges from source to target
EdgesBetween(source, target) ==
    {l \in Elements(links) : l.source = source /\ l.target = target}

C15_CorequisiteSymmetry ==
    pc = "done" =>
        \A i \in 1..Len(parsedCourses) :
          \A e \in EntriesOf(parsedCourses[i], "corequisites") :
            \E l1 \in EdgesBetween(e.course, parsedCourses[i].course) :
              \E l2 \in EdgesBetween(parsedCourses[i].course, e.course) :
                l1.value = l2.value

\* a lists b in its prerequisites tree
ListsAsPrerequisite(a, b) ==
    \E i \in 1..Len(parsedCourses) :
        /\ parsedCourses[i].course = a
        /\ \E e \in EntriesOf(parsedCourses[i], "prerequisites") : e.course = b

(***************************************************************************)
(* C15, amended: both edges exist, each with at least the rounded weight   *)
(* of the corequisite leaf; their values are equal when neither course     *)
(* lists the other in its prerequisites tree.                              *)
(***************************************************************************)
C15_BothDirections ==
    pc = "done" =>
        \A i \in 1..Len(parsedCourses) :
          \A e \in EntriesOf(parsedCourses[i], "corequisites") :
            LET a == parsedCourses[i].course
                b == e.course
            IN  \E l1 \in EdgesBetween(b, a) :
                  \E l2 \in EdgesBetween(a, b) :
                    /\ ~FracLess(l1.value, Round2(e.value))
                    /\ ~FracLess(l2.value, Round2(e.value))
                    /\ (~ListsAsPrerequisite(a, b) /\ ~ListsAsPrerequisite(b, a))
                            => l1.value = l2.value

\* CPSC 110 lists CPSC 121 as prerequisite and as one of two corequisite
\* alternatives: CPSC 121 -> CPSC 110 has value 1, the way back 0.5
C15_Witness ==
    /\ pc = "done"
    /\ Len(courses) = 1
    /\ Registration("CPSC 121", "CPSC 110", Frac(1, 1)) \in Elements(links)
    /\ Registration("CPSC 110", "CPSC 121", Frac(1, 2)) \in Elements(links)

(***************************************************************************)
(* C16: a prerequisite registers only the prerequisite-to-dependent        *)
(* direction.  If course leaf P occurs in the prerequisites tree of D, an  *)
(* edge P->D is in the output, and an edge D->P is there only if another   *)
(* relationship produces it: P lists D as prerequisite, or one of the two  *)
(* lists the other as corequisite.                                         *)
(***************************************************************************)
\* a lists b in its corequisites tree
ListsAsCorequisite(a, b) ==
    \E i \in 1..Len(parsedCourses) :
        /\ parsedCourses[i].course = a
        /\ \E e \in EntriesOf(parsedCourses[i], "corequisites") : e.course = b

C16_PrerequisiteOneDirection ==
    pc = "done" =>
        \A i \in 1..Len(parsedCourses) :
          \A e \in EntriesOf(parsedCourses[i], "prerequisites") :
            LET d == parsedCourses[i].course
                p == e.course
            IN  /\ EdgesBetween(p, d) # {}
                /\ EdgesBetween(d, p) # {} =>
                        \/ ListsAsPrerequisite(p, d)
                        \/ ListsAsCorequisite(p, d)
                        \/ ListsAsCorequisite(d, p)

\* CPSC 110 requires CPSC 121 and nothing else relates them: one edge
C16_Witness ==
    /\ pc = "done"
    /\ Len(courses) = 1
    /\ ListsAsPrerequisite("CPSC 110", "CPSC 121")
    /\ links = <<Registration("CPSC 121", "CPSC 110", Frac(1, 1))>>
    /\ EdgesBetween("CPSC 110", "CPSC 121") = {}

(***************************************************************************)
(* C17: pruning.  The ids of the output nodes are exactly the ids that are *)
(* source or target of at least one output edge: a parsed or referenced    *)
(* course without an incident edge is absent, and no node with an incident *)
(* edge is removed.                                                        *)
(***************************************************************************)
NodeIds == {nodes[i].id : i \in 1..Len(nodes)}

C17_NodesAreEdgeEnds ==
    pc = "done" =>
        /\ NodeIds = {l.source : l \in Elements(links)} \cup {l.target : l \in Elements(links)}
        /\ \A i, j \in 1..Len(nodes) : nodes[i].id = nodes[j].id => i = j

\* CPSC 110 is parsed and has no course requirement, CPSC 121 requires
\* PHYS 101: CPSC 110 is not among the nodes
C17_Witness ==
    /\ pc = "done"
    /\ Len(parsedCourses) = 2
    /\ parsedCourses[1].course = "CPSC 110"
    /\ NodeIds = {"PHYS 101", "CPSC 121"}

(***************************************************************************)
(* C18: the size of every output node is its in-degree over the final      *)
(* deduplicated edges: the number of output edges whose target is the      *)
(* node's id, a self-edge counting once.                                   *)
(***************************************************************************)
InDegree(id) == Cardinality({i \in 1..Len(links) : links[i].target = id})

OutDegree(id) == Cardinality({i \in 1..Len(links) : links[i].source = id})

C19_SizeIsDependentCount ==
    pc = "done" => \A i \in 1..Len(nodes) : nodes[i].size = OutDegree(nodes[i].id)

(***************************************************************************)
(* C20: as stated, the value stored on an edge equals the weight the       *)
(* extractor emitted for it, unrounded (1/3 for a course under a ONE_OF of *)
(* three at base weight 1).                                                *)
(***************************************************************************)
\* the weights the extractor emits for the edge source -> target
EmittedWeights(source, target) ==
    UNION {{e.value : e \in {x \in EntriesOf(parsedCourses[i], "prerequisites")
                                    \cup EntriesOf(parsedCourses[i], "corequisites") :
                                /\ x.course = source
                                /\ parsedCourses[i].course = target}}
           \cup {e.value : e \in {x \in EntriesOf(parsedCourses[i], "corequisites") :
                                    /\ x.course = target
                                    /\ parsedCourses[i].course = source}} :
           i \in 1..Len(parsedCourses)}

C20_ValuesNotRounded ==
    pc = "done" =>
        \A l \in Elements(links) : l.value \in EmittedWeights(l.source, l.target)

\* value is w rounded to hundredths, halves upwards
IsRoundingOf(value, w) ==
    \E n \in 0..(100 * w.num) :
        /\ value.num * 100 = n * value.den
        /\ (2 * n - 1) * w.den <= 200 * w.num
        /\ 200 * w.num < (2 * n + 1) * w.den

(***************************************************************************)
(* C20, amended: the value stored on an edge is a weight the extractor     *)
(* emitted for it, rounded to 2 decimals (0.33 for 1/3, 0.67 for 2/3).     *)
(***************************************************************************)
C20_ValuesRounded ==
    pc = "done" =>
        /\ \A l \in Elements(links) :
                \E w \in EmittedWeights(l.source, l.target) : IsRoundingOf(l.value, w)
        /\ (Len(courses) = 1 /\ ListsAsPrerequisite("CPSC 110", "MATH 100")
                /\ TreesOf(courses[1]) = {OneOfThree, Undef})
              => Registration("MATH 100", "CPSC 110", Frac(33, 100)) \in Elements(links)

\* CPSC 110 requires two of three courses: weight 2/3 is stored as 0.67
C20_Witness ==
    /\ pc = "done"
    /\ Len(courses) = 1
    /\ TreesOf(courses[1]) = {TwoOfThree, Undef}
    /\ ListsAsPrerequisite("CPSC 110", "MATH 100")
    /\ Registration("MATH 100", "CPSC 110", Frac(67, 100)) \in Elements(links)

(***************************************************************************)
(* C21: the department of every output node is the leading                 *)
(* space-delimited token of its course id, whether the node was first      *)
(* created as a parsed course or as a referenced prerequisite or           *)
(* corequisite, and for every processing order of the courses.             *)
(***************************************************************************)
\* token is the part of id before its first space, all of id when it has none
IsLeadingToken(token, id) ==
    \E k \in 0..Len(id) :
        /\ token = SubSeq(id, 1, k)
        /\ \A h \in 1..k : SubSeq(id, h, h) # " "
        /\ k = Len(id) \/ SubSeq(id, k + 1, k + 1) = " "

C21_DeptIsLeadingToken ==
    pc = "done" => \A i \in 1..Len(nodes) : IsLeadingToken(nodes[i].dept, nodes[i].id)

(***************************************************************************)
(* parseAllCourses: one run walks the course files; a file with status     *)
(* 'unparsed' or 'error' is handed to the generation service and its       *)
(* answer to the validator.  A file is the CourseSaveFile read from disk;  *)
(* lastUpdated is the number of the run that wrote it, 0 for the fetch.    *)
(***************************************************************************)
\* fetchAndStoreData: the CourseSaveFile written for one fetched course
FetchedFile(course, prer, crer) ==
    [course |-> course,
     originalPrerequisite |-> IF Truthy(prer) THEN prer ELSE Null,
     originalCorequisite |-> IF Truthy(crer) THEN crer ELSE Null,
     status |-> IF ~Truthy(prer) /\ ~Truthy(crer) THEN "parsed" ELSE "unparsed",
     parsedRequirements |-> Undef,
     blacklistReason |-> Undef,
     errorMessage |-> Undef,
     lastUpdated |-> 0]

\* for (const child of req.children) throws a TypeError unless children is iterable
IsIterable(v) == v.k \in {"array", "string"}

RECURSIVE prettyPrintRequirementsThrows(_)
\* prettyPrintRequirements(req) ends with an exception instead of a string
prettyPrintRequirementsThrows(req) ==
    IF ~Truthy(req) \/ TypeOf(req) # "object" THEN FALSE
    ELSE IF Get(req, "type") = Str("group")
    THEN \/ ~IsIterable(Get(req, "children"))
         \/ /\ IsArray(Get(req, "children"))
            /\ \E i \in 1..Len(Get(req, "children").a) :
                    prettyPrintRequirementsThrows(Get(req, "children").a[i])
    ELSE FALSE

\* prettyPrintCourseParsedRequirements(parsed) ends with an exception
prettyPrintCourseParsedRequirementsThrows(parsed) ==
    \/ parsed \in {Undef, Null}
    \/ \E f \in {"prerequisites", "corequisites", "recommendedPrerequisites",
                 "recommendedCorequisites"} :
            Truthy(Get(parsed, f)) /\ prettyPrintRequirementsThrows(Get(parsed, f))

(***************************************************************************)
(* The course files on disk and the answers of the generation service.     *)
(***************************************************************************)
\* largest number of course files
MaxFiles == 2

\* largest number of parse runs
MaxRuns == 3

\* what the service returns as parsedRequirements: an accepted record, a
\* rejected one, a group without children array, and nothing
parseCandidates ==
    {Record(Str("CPSC"), Str("121"),
            Group(Str("ALL_OF"), <<Course("CPSC 110"), Standing("2nd")>>),
            Course("MATH 100"), Undef, Undef),
     Record(Str("CPSC"), Str("121"), Group(Str("ALL_OF"), <<>>), Undef, Undef, Undef),
     Record(Str("CPSC"), Str("121"),
            Obj([type |-> Str("group"), logic |-> Str("ALL_OF")]), Undef, Undef, Undef),
     Undef}

\* the "error" of a declining answer; the answer can lack it
declineReasons == {Str("ambiguous"), Undef}

\* the texts of a fetched course: absent or present
requirementTexts == {Undef, Str("CPSC 110")}

\* a fetched file, or a file without requirement texts put back to 'unparsed'
initialFile(course) ==
    {FetchedFile(course, prer, crer) : prer \in requirementTexts, crer \in requirementTexts}
    \cup {[FetchedFile(course, Undef, Undef) EXCEPT !.status = "unparsed"]}

RECURSIVE FilesOfLen(_)
FilesOfLen(n) ==
    IF n = 0 THEN {<<>>}
    ELSE {Append(fs, f) : fs \in FilesOfLen(n - 1), f \in initialFile(courseIdAt(n))}

initialFiles == UNION {FilesOfLen(n) : n \in 1..MaxFiles}

\* LLMResult of a declined request and of an answered one
Declined(reason) == [isError |-> TRUE, errorMessage |-> reason]

Answered(candidate) == [isError |-> FALSE, parsedRequirements |-> candidate]

\* the file at hand
courseData == files[cursor]

\* a file is before the loop body
AtFile == pc = "file" /\ cursor <= Len(files)

\* courseData.lastUpdated = new Date().toISOString(); fs.writeFileSync(...)
Save(file) == [files EXCEPT ![cursor] = [file EXCEPT !.lastUpdated = runs]]

\* the process is started
StartRun ==
    /\ pc = "idle"
    /\ runs < MaxRuns
    /\ runs' = runs + 1
    /\ cursor' = 1
    /\ pc' = "file"
    /\ llmResult' = Undef
    /\ data' = Undef
    /\ result' = NoResult
    /\ UNCHANGED <<files, node, courseDepths, extracted, depth, courses, changed,
                   maxIterations, nodes, links>>

\* a skip that stamps the file it passes over
SkipFile_Touches ==
    /\ AtFile
    /\ courseData.status \notin {"error", "unparsed"}
    /\ files' = Save(courseData)
    /\ cursor' = cursor + 1
    /\ llmResult' = Undef
    /\ data' = Undef
    /\ result' = NoResult
    /\ UNCHANGED <<runs, pc, node, courseDepths, extracted, depth, courses,
                   changed, maxIterations, nodes, links>>

\* status is neither 'error' nor 'unparsed': continue
SkipFile ==
    /\ AtFile
    /\ courseData.status \notin {"error", "unparsed"}
    /\ cursor' = cursor + 1
    /\ llmResult' = Undef
    /\ data' = Undef
    /\ result' = NoResult
    /\ UNCHANGED <<files, runs, pc, node, courseDepths, extracted, depth, courses,
                   changed, maxIterations, nodes, links>>

\* the file is to be processed and has a requirement text
NeedsService ==
    /\ AtFile
    /\ courseData.status \in {"error", "unparsed"}
    /\ Truthy(courseData.originalPrerequisite) \/ Truthy(courseData.originalCorequisite)

\* Step 2: no prerequisite and no corequisite text
MarkParsed ==
    /\ AtFile
    /\ courseData.status \in {"error", "unparsed"}
    /\ ~Truthy(courseData.originalPrerequisite)
    /\ ~Truthy(courseData.originalCorequisite)
    /\ files' = Save([courseData EXCEPT !.status = "parsed"])
    /\ cursor' = cursor + 1
    /\ llmResult' = Undef
    /\ data' = Undef
    /\ result' = NoResult
    /\ UNCHANGED <<runs, pc, node, courseDepths, extracted, depth, courses, changed,
                   maxIterations, nodes, links>>

\* callLLM ends the process: HTTP error, no JSON in the answer, exception
ServiceExits ==
    /\ NeedsService
    /\ pc' = "idle"
    /\ llmResult' = Undef
    /\ data' = Undef
    /\ result' = NoResult
    /\ UNCHANGED <<files, runs, cursor, node, courseDepths, extracted, depth, courses,
                   changed, maxIterations, nodes, links>>

\* Step 4: the service declines
Blacklist ==
    /\ NeedsService
    /\ \E reason \in declineReasons :
        /\ llmResult' = Declined(reason)
        /\ files' = Save([courseData EXCEPT !.status = "blacklisted",
                                            !.blacklistReason = reason])
    /\ cursor' = cursor + 1
    /\ data' = Undef
    /\ result' = NoResult
    /\ UNCHANGED <<runs, pc, node, courseDepths, extracted, depth, courses, changed,
                   maxIterations, nodes, links>>

\* Step 5, first half: printing the candidate throws, the catch ends the process
PrintExits ==
    /\ NeedsService
    /\ \E candidate \in parseCandidates :
        /\ prettyPrintCourseParsedRequirementsThrows(candidate)
        /\ llmResult' = Answered(candidate)
    /\ pc' = "idle"
    /\ data' = Undef
    /\ result' = NoResult
    /\ UNCHANGED <<files, runs, cursor, node, courseDepths, extracted, depth, courses,
                   changed, maxIterations, nodes, links>>

\* Step 5: the validator rejects the candidate
RejectCandidate ==
    /\ NeedsService
    /\ \E candidate \in parseCandidates :
        /\ ~prettyPrintCourseParsedRequirementsThrows(candidate)
        /\ ~validateParsedRequirements(candidate).isValid
        /\ llmResult' = Answered(candidate)
        /\ data' = candidate
        /\ result' = validateParsedRequirements(candidate)
        /\ files' = Save([courseData EXCEPT
                            !.status = "error",
                            !.errorMessage =
                                Str(validateParsedRequirements(candidate).error)])
    /\ cursor' = cursor + 1
    /\ UNCHANGED <<runs, pc, node, courseDepths, extracted, depth, courses, changed,
                   maxIterations, nodes, links>>

\* a save that does not ask the validator
SaveParsed_Unvalidated ==
    /\ NeedsService
    /\ \E candidate \in parseCandidates :
        /\ ~prettyPrintCourseParsedRequirementsThrows(candidate)
        /\ llmResult' = Answered(candidate)
        /\ data' = candidate
        /\ result' = validateParsedRequirements(candidate)
        /\ files' = Save([courseData EXCEPT !.status = "parsed",
                                            !.parsedRequirements = candidate])
    /\ cursor' = cursor + 1
    /\ UNCHANGED <<runs, pc, node, courseDepths, extracted, depth, courses, changed,
                   maxIterations, nodes, links>>

\* Step 6: the validator accepts the candidate
SaveParsed ==
    /\ NeedsService
    /\ \E candidate \in parseCandidates :
        /\ ~prettyPrintCourseParsedRequirementsThrows(candidate)
        /\ validateParsedRequirements(candidate).isValid
        /\ llmResult' = Answered(candidate)
        /\ data' = candidate
        /\ result' = validateParsedRequirements(candidate)
        /\ files' = Save([courseData EXCEPT !.status = "parsed",
                                            !.parsedRequirements = candidate])
    /\ cursor' = cursor + 1
    /\ UNCHANGED <<runs, pc, node, courseDepths, extracted, depth, courses, changed,
                   maxIterations, nodes, links>>

\* the loop is over: the counts are printed and the process ends
EndRun ==
    /\ pc = "file"
    /\ cursor > Len(files)
    /\ pc' = "idle"
    /\ llmResult' = Undef
    /\ data' = Undef
    /\ result' = NoResult
    /\ UNCHANGED <<files, runs, cursor, node, courseDepths, extracted, depth, courses,
                   changed, maxIterations, nodes, links>>

NextParse ==
    \/ StartRun \/ SkipFile \/ MarkParsed \/ ServiceExits \/ Blacklist
    \/ PrintExits \/ RejectCandidate \/ SaveParsed \/ EndRun

InitParse ==
    /\ files \in initialFiles
    /\ runs = 0
    /\ llmResult = Undef
    /\ pc = "idle"
    /\ cursor = 0
    /\ data = Undef
    /\ result = NoResult
    /\ node = Undef
    /\ courseDepths = <<>>
    /\ extracted = <<>>
    /\ depth = 0
    /\ courses = <<>>
    /\ changed = FALSE
    /\ maxIterations = 0
    /\ nodes = <<>>
    /\ links = <<>>

SpecParse == InitParse /\ [][NextParse]_vars

(***************************************************************************)
(* Claims about the parse runs.                                            *)
(***************************************************************************)
\* C22: a step of a parse run changes a file only when it is the file at hand
\* and its status is 'unparsed' or 'error', and the changed file then has
\* status 'parsed', 'blacklisted' or 'error'; a file whose status is
\* 'parsed' or 'blacklisted' is passed over and stays exactly as it was, and
\* no file appears or disappears.
C22_Workflow ==
    [][/\ Len(files') = Len(files)
       /\ \A i \in 1..Len(files) :
            /\ files'[i] # files[i] =>
                    /\ pc = "file" /\ i = cursor
                    /\ files[i].status \in {"unparsed", "error"}
                    /\ files'[i].status \in {"parsed", "blacklisted", "error"}
                    /\ cursor' = cursor + 1
            /\ (AtFile /\ i = cursor /\ files[i].status \in {"parsed", "blacklisted"}) =>
                    /\ files'[i] = files[i]
                    /\ cursor' = cursor + 1]_vars

\* the second run has retried and parsed the errored first file and has
\* passed over the second file, blacklisted by the first run
C22_Witness ==
    /\ pc = "idle" /\ runs = 2 /\ Len(files) = 2
    /\ files[1].status = "parsed" /\ files[1].lastUpdated = 2
    /\ files[1].errorMessage # Undef
    /\ files[2].status = "blacklisted" /\ files[2].lastUpdated = 1

\* C23: a step stores parsedRequirements in a file only when the validator
\* has accepted exactly that candidate, and the file then has status
\* 'parsed'; a rejected candidate leaves status 'error', the validator's
\* reason as errorMessage and parsedRequirements as they were; a declined
\* request leaves status 'blacklisted' with the service's reason, and the
\* validator has not been called.
C23_ValidatorGates ==
    [][\A i \in 1..Len(files) :
        /\ files'[i].parsedRequirements # files[i].parsedRequirements =>
                /\ data' = files'[i].parsedRequirements
                /\ llmResult' = Answered(data')
                /\ result' = validateParsedRequirements(data')
                /\ result'.isValid
                /\ files'[i].status = "parsed"
        /\ (i = cursor /\ NeedsService /\ llmResult' # Undef /\ ~llmResult'.isError
              /\ ~prettyPrintCourseParsedRequirementsThrows(llmResult'.parsedRequirements)
              /\ ~validateParsedRequirements(llmResult'.parsedRequirements).isValid) =>
                /\ result' = validateParsedRequirements(llmResult'.parsedRequirements)
                /\ files'[i].status = "error"
                /\ files'[i].errorMessage = Str(result'.error)
                /\ files'[i].parsedRequirements = files[i].parsedRequirements
        /\ (i = cursor /\ NeedsService /\ llmResult' # Undef /\ llmResult'.isError) =>
                /\ files'[i].status = "blacklisted"
                /\ files'[i].blacklistReason = llmResult'.errorMessage
                /\ files'[i].parsedRequirements = files[i].parsedRequirements
                /\ result' = NoResult]_vars

\* C23: every stored parsedRequirements is a record the validator accepts,
\* in a file with status 'parsed'.
C23_StoredIsValid ==
    \A i \in 1..Len(files) :
        files[i].parsedRequirements # Undef =>
            /\ validateParsedRequirements(files[i].parsedRequirements).isValid
            /\ files[i].status = "parsed"

\* C23, both parts
C23_Gate == C23_ValidatorGates /\ []C23_StoredIsValid

\* the first file holds a rejected candidate's reason and no record, the
\* second one the record the validator has just accepted
C23_Witness ==
    /\ Len(files) = 2 /\ cursor = 3
    /\ files[1].status = "error" /\ files[1].errorMessage # Undef
    /\ files[1].parsedRequirements = Undef
    /\ files[2].status = "parsed" /\ files[2].parsedRequirements = data
    /\ data # Undef /\ ~llmResult.isError /\ result.isValid

\* C30: in every file, after any number of parse runs, status 'parsed'
\* comes without errorMessage and without blacklistReason, status 'error'
\* comes with an errorMessage and without parsedRequirements, and status
\* 'blacklisted' comes with a blacklistReason.
C30_AuxAgreesWithStatus ==
    \A i \in 1..Len(files) :
        /\ files[i].status = "parsed" =>
                files[i].errorMessage = Undef /\ files[i].blacklistReason = Undef
        /\ files[i].status = "error" =>
                files[i].errorMessage # Undef /\ files[i].parsedRequirements = Undef
        /\ files[i].status = "blacklisted" => files[i].blacklistReason # Undef

\* C30, the retried file alone: a file with status 'parsed' has no errorMessage
C30_ParsedHasNoErrorMessage ==
    \A i \in 1..Len(files) :
        files[i].status = "parsed" => files[i].errorMessage = Undef

(***************************************************************************)
(* Claims about the relaxation as a process.                               *)
(***************************************************************************)
\* C24: the table starts with 0 for every parsed course, its entries are
\* natural numbers, no step removes an entry or lowers one, a written entry
\* is strictly larger than the one it replaces, and within a pass the flag
\* "changed" is lowered at the start and is raised by a visit exactly when
\* that visit made an entry grow.
C24_MonotoneTable ==
    /\ [](TableReady => \A id \in DOMAIN courseDepths : courseDepths[id] \in Nat)
    /\ [][/\ pc = "start" => \A id \in DOMAIN courseDepths' : courseDepths'[id] = 0
          /\ pc # "start" =>
                /\ DOMAIN courseDepths' = DOMAIN courseDepths
                /\ \A id \in DOMAIN courseDepths : courseDepths'[id] >= courseDepths[id]
          /\ (pc = "loop" /\ pc' = "pass") => ~changed'
          /\ pc = "pass" =>
                (changed' <=>
                    (changed \/ \E id \in DOMAIN courseDepths :
                                    courseDepths'[id] > courseDepths[id]))]_vars

\* a pass that raised an entry has been followed by a pass without change
C24_Witness ==
    /\ pc = "loop" /\ ~changed /\ PassesBegun = 2
    /\ \E id \in DOMAIN courseDepths : courseDepths[id] > 0

\* the parsed course with the given id
CourseWithId(id) == CHOOSE c \in Elements(parsedCourses) : c.course = id

\* every entry recomputed at once from the table, in no order
RecomputeAll(table) ==
    [id \in DOMAIN table |->
        MaxInt(table[id], RequirementsDepth(CourseWithId(id).parsedRequirements, table))]

RECURSIVE RecomputeTimes(_, _)
RecomputeTimes(table, n) ==
    IF n = 0 THEN table ELSE RecomputeTimes(RecomputeAll(table), n - 1)

\* the depths of an acyclic course set: the least fixed point above the
\* zero table, a function of the set of courses alone
TrueDepths ==
    RecomputeTimes([id \in {parsedCourses[i].course : i \in 1..Len(parsedCourses)} |-> 0],
                   Len(parsedCourses))

\* no chain of the course set is deeper than the ceiling of the loop
TrueWithinCeiling == \A id \in DOMAIN TrueDepths : TrueDepths[id] <= iterationCeiling

\* C25: for an acyclic course set whose true depths are at most 10, no
\* entry of the table ever exceeds the true depth of its course, and the
\* returned table is the table of true depths, which does not depend on the
\* order of the courses.
C25_OrderIndependent ==
    LET true == TrueDepths
    IN  (TableReady /\ IsDAG /\ \A id \in DOMAIN true : true[id] <= iterationCeiling) =>
            /\ DOMAIN courseDepths = DOMAIN true
            /\ \A id \in DOMAIN courseDepths : courseDepths[id] <= true[id]
            /\ pc = "done" => courseDepths = true

\* a chain of ten courses listed dependents first has used the ten passes
\* and returned the depths 1..10
C25_Witness ==
    /\ pc = "done" /\ IsDAG /\ TrueWithinCeiling
    /\ Len(courses) = 10 /\ courses[1].course = chainId(10)
    /\ maxIterations = 0
    /\ courseDepths = [id \in {chainId(i) : i \in 1..10} |->
                            CHOOSE i \in 1..10 : chainId(i) = id]

\* two courses in the two orders: the course listed first depends on the
\* course listed second, and the table is the same as in the other order
C25_WitnessOrder ==
    /\ pc = "done" /\ IsDAG /\ Len(courses) = 2
    /\ courses[1].status = "parsed" /\ courses[2].status = "parsed"
    /\ courses[2].course \in RequiredBy(courses[1])
    /\ PassesBegun = 3
    /\ courseDepths = TrueDepths

RECURSIVE MandatoryLeafIds(_)
\* the ids of the course leaves of a tree reached through ALL_OF groups only
MandatoryLeafIds(t) ==
    IF IsNodeOfType(t, {"course"}) THEN {Get(t, "course").s}
    ELSE IF IsGroupNode(t) /\ Get(t, "logic") = Str("ALL_OF")
    THEN UNION {MandatoryLeafIds(ChildrenOf(t)[i]) : i \in 1..Len(ChildrenOf(t))}
    ELSE {}

\* the ids a parsed course cannot do without
MandatoryRefs(course) == UNION {MandatoryLeafIds(t) : t \in TreesOf(course)}

\* the parsed courses that reference themselves, or reference a parsed
\* course that references them back, by mandatory references
CycleCourses ==
    {a \in Elements(parsedCourses) :
        \/ a.course \in MandatoryRefs(a)
        \/ \E b \in Elements(parsedCourses) :
                b.course \in MandatoryRefs(a) /\ a.course \in MandatoryRefs(b)}

\* C26: when some parsed course is on a cycle of mandatory references, every
\* visit of a course on the cycle raises its depth, every pass ends with
\* "changed" raised, and the loop is left only after the tenth pass.
C26_CycleNeverSettles ==
    /\ []((TableReady /\ CycleCourses # {}) =>
            /\ (pc = "loop" /\ PassesBegun >= 1) => changed
            /\ pc \in {"assemble", "done"} => PassesBegun = iterationCeiling)
    /\ [][(pc = "pass" /\ cursor <= Len(parsedCourses)
             /\ parsedCourses[cursor] \in CycleCourses) =>
                courseDepths'[parsedCourses[cursor].course]
                    > courseDepths[parsedCourses[cursor].course]]_vars

\* a course that is its own prerequisite has been raised once in each of
\* the ten passes
C26_Witness ==
    /\ pc = "done" /\ Len(courses) = 1 /\ courses[1].status = "parsed"
    /\ courses[1].course \in MandatoryRefs(courses[1])
    /\ maxIterations = 0
    /\ courseDepths = (courses[1].course :> 10)

\* a mutual corequisite pair has been raised in each of the ten passes
C26_WitnessPair ==
    /\ pc = "done" /\ Len(courses) = 2
    /\ courses[1].status = "parsed" /\ courses[2].status = "parsed"
    /\ Get(courses[1].parsedRequirements, "corequisites") = Course(courses[2].course)
    /\ Get(courses[2].parsedRequirements, "corequisites") = Course(courses[1].course)
    /\ maxIterations = 0
    /\ courseDepths = (courses[1].course :> 19 @@ courses[2].course :> 20)

(***************************************************************************)
(* Claims about the returned graph as a whole.                             *)
(***************************************************************************)
\* the output nodes with the given id
NodesWithId(id) == {i \in 1..Len(nodes) : nodes[i].id = id}

\* C28: in the returned graph the source and the target of every edge are
\* each the id of exactly one node, no two nodes have the same id, no two
\* edges have the same (source, target) pair, and the depth of every node is
\* the value of the resolved table for its id, 0 when the table has none.
C28_ReferentialIntegrity ==
    pc = "done" =>
        /\ \A i \in 1..Len(links) :
                /\ Cardinality(NodesWithId(links[i].source)) = 1
                /\ Cardinality(NodesWithId(links[i].target)) = 1
        /\ \A i, j \in 1..Len(nodes) : nodes[i].id = nodes[j].id => i = j
        /\ \A i, j \in 1..Len(links) : SamePair(links[i], links[j]) => i = j
        /\ \A i \in 1..Len(nodes) : nodes[i].depth = DepthOf(courseDepths, nodes[i].id)

\* CPSC 110 requires CPSC 121, which requires PHYS 101, a course without
\* record: three nodes of depths 2, 1 and 0 and two edges
C28_Witness ==
    /\ pc = "done"
    /\ Len(links) = 2 /\ Len(nodes) = 3
    /\ \E i, j, k \in 1..Len(nodes) :
            /\ nodes[i].id = "CPSC 110" /\ nodes[i].depth = 2
            /\ nodes[j].id = "CPSC 121" /\ nodes[j].depth = 1
            /\ nodes[k].id = "PHYS 101" /\ nodes[k].depth = 0
    /\ "PHYS 101" \notin DOMAIN courseDepths

(***************************************************************************)
(* Course sets whose trees name courses by ids that contain "->": the id   *)
(* of a course leaf is whatever string the generation service returned.    *)
(***************************************************************************)
\* the (prerequisites, corequisites) pairs of these course files
arrowRequirementPairs ==
    {<<Undef, Undef>>,
     <<Course("MATH 100"), Undef>>,
     <<Course("CPSC 121"), Course("MATH 100")>>,
     <<Undef, Course("MATH 100->CPSC 121")>>,
     <<Course("CPSC 110->MATH 100"), Undef>>}

arrowCourseFiles(id) ==
    {[course |-> id, status |-> "parsed",
      parsedRequirements |-> Requirements(id, p[1], p[2])] : p \in arrowRequirementPairs}

\* CPSC 110 alone, or CPSC 110 and CPSC 121 in both orders
arrowCourseSets ==
    {<<a>> : a \in arrowCourseFiles(courseIdAt(1))}
    \cup UNION {{<<a, b>>, <<b, a>>} :
                    a \in arrowCourseFiles(courseIdAt(1)),
                    b \in arrowCourseFiles(courseIdAt(2))}

InitKeys ==
    /\ courses \in arrowCourseSets
    /\ pc = "start"
    /\ courseDepths = <<>>
    /\ changed = FALSE
    /\ maxIterations = 0
    /\ cursor = 0
    /\ nodes = <<>>
    /\ links = <<>>
    /\ files = <<>>
    /\ llmResult = Undef
    /\ runs = 0
    /\ data = Undef
    /\ result = NoResult
    /\ node = Undef
    /\ extracted = <<>>
    /\ depth = 0

SpecKeys == InitKeys /\ [][NextGraph]_vars

\* C27: two registrations with different (source, target) pairs have
\* different keys, and every registered pair has an edge of its own in the
\* edge map, whatever the ids, ids with "->" included.
C27_PairsKeptApart ==
    /\ \A r1, r2 \in RegisteredUpTo(Assembled) :
            LinkKey(r1.source, r1.target) = LinkKey(r2.source, r2.target)
                => SamePair(r1, r2)
    /\ \A r \in RegisteredUpTo(Assembled) :
            \E i \in 1..Len(links) : SamePair(links[i], r)

(***************************************************************************)
(* The generator called twice: on a list of course files, and again on the *)
(* list with one file changed in a part that must not matter.  "data"      *)
(* keeps what the first call returned, "runs" counts the calls made.       *)
(***************************************************************************)
\* what the recommended fields of a record can hold
recommendedPool ==
    {Undef, Course("PHYS 101"),
     Group(Str("ALL_OF"), <<Course("CPSC 110"), Course("MATH 100")>>)}

\* the files of a course that is not parsed, with and without a record left
\* by an earlier run
idleCourseFiles(id) ==
    {[course |-> id, status |-> st, parsedRequirements |-> req] :
        st \in {"unparsed", "blacklisted", "error"},
        req \in {Undef, Requirements(id, Course("CPSC 121"), Course("CPSC 110"))}}

\* the record of a parsed course with other recommended fields
WithRecommended(course, recPre, recCo) ==
    [course EXCEPT !.parsedRequirements =
        Obj([@.f EXCEPT !.recommendedPrerequisites = recPre,
                        !.recommendedCorequisites = recCo])]

frameCourseFiles(id) ==
    {WithRecommended([course |-> id, status |-> "parsed",
                      parsedRequirements |-> Requirements(id, p[1], p[2])],
                     rec, Undef) :
        p \in {<<Undef, Undef>>, <<Course("CPSC 121"), Undef>>,
               <<Undef, Course("CPSC 110")>>, <<OneOfTwo, Course("PHYS 101")>>},
        rec \in {Undef, Course("PHYS 101")}}
    \cup idleCourseFiles(id)

frameCourseSets ==
    {<<a>> : a \in frameCourseFiles(courseIdAt(1))}
    \cup {<<a, b>> : a \in frameCourseFiles(courseIdAt(1)),
                     b \in frameCourseFiles(courseIdAt(2))}

\* the files that differ from the given one in a part the graph must not
\* depend on: the recommended fields of a parsed course, anything but the
\* status class of a course that is not parsed
Variants(course) ==
    IF course.status # "parsed"
    THEN (idleCourseFiles(course.course) \cup idleCourseFiles("MATH 100")) \ {course}
    ELSE IF course.parsedRequirements.k = "object"
    THEN {WithRecommended(course, a, b) : a \in recommendedPool, b \in recommendedPool}
            \ {course}
    ELSE {}

\* the second call, on the list with one file replaced by a variant
Rerun ==
    /\ pc = "done"
    /\ runs = 0
    /\ \E i \in 1..Len(courses) :
        \E c \in Variants(courses[i]) : courses' = [courses EXCEPT ![i] = c]
    /\ data' = [nodes |-> nodes, links |-> links, courseDepths |-> courseDepths]
    /\ runs' = 1
    /\ pc' = "start"
    /\ courseDepths' = <<>>
    /\ changed' = FALSE
    /\ maxIterations' = 0
    /\ cursor' = 0
    /\ nodes' = <<>>
    /\ links' = <<>>
    /\ UNCHANGED <<files, llmResult, result, node, extracted, depth>>

NextFrame == NextGraph \/ Rerun

InitFrame ==
    /\ courses \in frameCourseSets
    /\ pc = "start"
    /\ courseDepths = <<>>
    /\ changed = FALSE
    /\ maxIterations = 0
    /\ cursor = 0
    /\ nodes = <<>>
    /\ links = <<>>
    /\ files = <<>>
    /\ llmResult = Undef
    /\ runs = 0
    /\ data = Undef
    /\ result = NoResult
    /\ node = Undef
    /\ extracted = <<>>
    /\ depth = 0

SpecFrame == InitFrame /\ [][NextFrame]_vars

\* C29: when a course list differs from another one only in the recommended
\* fields of a parsed course, or in the content of a course with status
\* 'unparsed', 'blacklisted' or 'error', the generator returns for it the
\* same nodes, with the same sizes and depths, the same edges and the same
\* depth table.
C29_Frame ==
    (pc = "done" /\ runs = 1) =>
        /\ nodes = data.nodes
        /\ links = data.links
        /\ courseDepths = data.courseDepths

\* the second call has returned a graph with an edge for a list in which a
\* course with status 'error' carries a record
C29_Witness ==
    /\ pc = "done" /\ runs = 1
    /\ Len(links) >= 1 /\ Len(courses) = 2
    /\ courses[1].status = "parsed"
    /\ courses[2].status = "error" /\ Truthy(courses[2].parsedRequirements)
    /\ nodes = data.nodes

\* the second call has returned a graph for a list in which the recommended
\* prerequisites of a parsed course were replaced by a group
C29_WitnessRecommended ==
    /\ pc = "done" /\ runs = 1
    /\ Len(links) >= 1 /\ Len(courses) = 1
    /\ Get(courses[1].parsedRequirements, "recommendedPrerequisites")
            = Group(Str("ALL_OF"), <<Course("CPSC 110"), Course("MATH 100")>>)
    /\ links = data.links

====
